---- MODULE Spec2Model ----
(***************************************************************************)
(* A model of theia_picker/download.py: the retry decorator, the           *)
(* RequestsManager session (token renewal and authorized GET), the ranged  *)
(* fetch of RemoteZip and the retry-wrapped operations of Feature.         *)
(*                                                                         *)
(* The specifications of the module:                                       *)
(*   SpecRange  RemoteZip._get_range streaming one response body           *)
(*   SpecRetry  the retry decorator around an arbitrary function           *)
(*   SpecWalk   RemoteZip.__init__ reading the central directory bytes     *)
(*   SpecPath   the destination paths of the two extraction entry points   *)
(*   Spec       the session and the operations of Feature, as a call stack *)
(***************************************************************************)
EXTENDS Integers, Sequences, FiniteSets, TLC

VARIABLES
    gr,     \* locals of one RemoteZip._get_range call (SpecRange)
    rw,     \* one call through retry(...)(function) (SpecRetry)
    session,                \* "none", or "live": a RequestsManager exists
    authorization_headers,  \* 0: {}, t > 0: {"Authorization": "Bearer t"}
    server,                 \* the remote side: tokens issued and accepted
    lastAuth,               \* the latest authentication exchange
    lastGet,                \* the latest finished RequestsManager.get call
    stack,      \* the frames of the running call, the innermost last
    sig,        \* what the frame that just ended handed to its caller
    feat,       \* the Feature: whether _remote_zip holds a RemoteZip
    fs,         \* the local files: the extracted member, the archive
    last,       \* the retry wrapper call that ended last
    walk,       \* locals of RemoteZip.__init__ from line 300 on (SpecWalk)
    dest,       \* one extraction and the tree it writes to (SpecPath)
    batch,      \* one download of the members matching patterns (SpecBatch)
    renewers    \* threads renewing the token of one session (SpecRenew)

rangeVars == <<gr>>
retryVars == <<rw>>
sessionVars == <<session, authorization_headers, server, lastAuth, lastGet>>
opsVars == <<stack, sig, feat, fs, last>>
pureVars == <<walk, dest, batch, renewers>>
vars == <<gr, rw, session, authorization_headers, server, lastAuth, lastGet,
          stack, sig, feat, fs, last, walk, dest, batch, renewers>>

Min(a, b) == IF a < b THEN a ELSE b
Max(a, b) == IF a > b THEN a ELSE b

(***************************************************************************)
(* Program constants.                                                      *)
(***************************************************************************)
MAX_NB_RETRIES == 5

(***************************************************************************)
(* RemoteZip._get_range (download.py 346-405).                             *)
(*                                                                         *)
(* The archive is the byte sequence <<1, ..., n>>: a byte is named by its  *)
(* position, so that order, loss and duplication of bytes are visible.     *)
(* The request carries "Range: bytes=<start>-"; the response body is the   *)
(* archive from `start` on.  iter_content(block_size) hands the body over  *)
(* in blocks of at most block_size bytes.                                  *)
(***************************************************************************)
MaxArchive == 6     \* archive sizes 0..MaxArchive
MaxLength  == 4     \* requested lengths 0..MaxLength
MaxBlock   == 3     \* block sizes 1..MaxBlock

\* The body the server streams for "Range: bytes=start-" on an archive of
\* `size` bytes.
RangeBody(size, start) == [i \in 1..Max(size - start, 0) |-> start + i]

\* Python's data[:-n] for n > 0.
\* data[:n], the first n bytes.
DropLastKeepsFirst(data, n) == SubSeq(data, 1, Min(n, Len(data)))

DropLast(data, n) == SubSeq(data, 1, Max(Len(data) - n, 0))

\* Lines 387-389: the block kept after n_bytes has been advanced.
TruncateBlock(data, n_extra_bytes) ==
    IF n_extra_bytes > 0 THEN DropLast(data, n_extra_bytes) ELSE data

\* Lines 396-399: the loop is left only when extra bytes were received.
BreakAfterBlock(n_extra_bytes) == n_extra_bytes > 0

GrIdle == [pc |-> "idle"]
WalkIdle == [pc |-> "idle"]
DestIdle == [pc |-> "idle"]
BatchIdle == [pc |-> "idle"]
RenewersIdle == <<>>
MoreIdle == batch = BatchIdle /\ renewers = RenewersIdle
PureIdle == walk = WalkIdle /\ dest = DestIdle /\ MoreIdle

GrInit ==
    gr \in [pc : {"loop"},
            start : 0..MaxArchive,
            length : 0..MaxLength,
            block_size : 1..MaxBlock,
            size : 0..MaxArchive,
            sink : {"memory", "file"},
            pos : {0},            \* bytes of the body handed over so far
            n_bytes : {0},
            content : {<<>>},     \* the bytearray returned (memory sink)
            fed : {<<>>},         \* bytes given to decomp.decompress (file sink)
            reads : {0},          \* blocks taken from iter_content
            late_reads : {0}]     \* blocks taken when n_bytes had reached length

GrBody == RangeBody(gr.size, gr.start)

\* One iteration of the for loop at 385-399 on a block of k bytes.
GetRangeBlock ==
    /\ gr.pc = "loop"
    /\ gr.pos < Len(GrBody)
    /\ \E k \in 1..Min(gr.block_size, Len(GrBody) - gr.pos) :
        LET data == SubSeq(GrBody, gr.pos + 1, gr.pos + k)
            n_bytes == gr.n_bytes + Len(data)
            n_extra_bytes == n_bytes - gr.length
            kept == TruncateBlock(data, n_extra_bytes)
        IN gr' = [gr EXCEPT
                    !.pos = gr.pos + k,
                    !.n_bytes = n_bytes,
                    !.content = IF gr.sink = "memory" THEN @ \o kept ELSE @,
                    !.fed = IF gr.sink = "file" THEN @ \o kept ELSE @,
                    !.reads = @ + 1,
                    !.late_reads = IF gr.reads > 0 /\ gr.n_bytes >= gr.length
                                   THEN @ + 1 ELSE @,
                    !.pc = IF BreakAfterBlock(n_extra_bytes)
                           THEN "done" ELSE "loop"]
    /\ UNCHANGED <<retryVars, sessionVars, opsVars, pureVars>>

\* The body is exhausted: the for loop ends, the sink is flushed (400-405).
GetRangeEnd ==
    /\ gr.pc = "loop"
    /\ gr.pos >= Len(GrBody)
    /\ gr' = [gr EXCEPT !.pc = "done"]
    /\ UNCHANGED <<retryVars, sessionVars, opsVars, pureVars>>

(***************************************************************************)
(* retry (download.py 30-92): the wrapper of retry(err_cls, action, times, *)
(* sleep_duration)(function).                                              *)
(*                                                                         *)
(* The caller's renew_token keyword is "absent", "false" or "true".  An    *)
(* exception is a record [kind, id]; id numbers the raise, so that two     *)
(* exceptions of one kind are told apart.                                  *)
(***************************************************************************)
MaxTimes  == 5      \* `times` ranges over 0..MaxTimes
MaxValue  == 2      \* return values 1..MaxValue

\* Line 77: extra_opts, as the value it gives renew_token ("absent": {}).
\* The flag is set on every attempt.
ExtraOptsAlways(retry_nb) == "true"

ExtraOpts(retry_nb) == IF retry_nb = 0 THEN "absent" ELSE "true"

\* {**extra_opts, **kwargs}: the caller's keyword wins.
MergeKwargsCallerWins(kwargs, extra_opts) ==
    IF kwargs = "absent" THEN extra_opts ELSE kwargs

\* Line 78: {**kwargs, **extra_opts}, the renew_token the function receives.
MergeKwargs(kwargs, extra_opts) ==
    IF extra_opts = "absent" THEN kwargs ELSE extra_opts

\* Line 79: except err_cls.
Caught(err, err_cls) == err.kind \in err_cls

\* The last attempt is never recognised.
IsLastAttemptNever(retry_nb, times) == retry_nb = times

\* Line 81: the caught exception is re-raised on the last attempt.
IsLastAttempt(retry_nb, times) == retry_nb = times - 1

RwIdle == [pc |-> "idle"]

RwInit ==
    rw \in [pc : {"try"},
            times : 0..MaxTimes,
            kwargs : {"absent", "false", "true"},
            retry_nb : {0},
            calls : {<<>>},       \* renew_token of each invocation
            outcomes : {<<>>},    \* what each invocation did
            sleeps : {0},
            result : {[kind |-> "none"]}]

RwErrCls == {"retried"}

\* What one invocation of the wrapped function may do.
RwOutcomes(id) ==
    [kind : {"return"}, value : 1..MaxValue]
        \cup [kind : {"retried", "other"}, id : {id}]

\* Lines 75-82: one pass of the loop body, the function called once.
RetryAttempt ==
    /\ rw.pc = "try"
    /\ rw.retry_nb < rw.times
    /\ \E out \in RwOutcomes(rw.retry_nb + 1) :
        LET passed == MergeKwargs(rw.kwargs, ExtraOpts(rw.retry_nb))
            logged == [rw EXCEPT !.calls = Append(@, passed),
                                 !.outcomes = Append(@, out)]
        IN rw' =
            IF out.kind = "return"
            THEN [logged EXCEPT !.pc = "returned", !.result = out]
            ELSE IF ~Caught(out, RwErrCls)
                    \/ IsLastAttempt(rw.retry_nb, rw.times)
            THEN [logged EXCEPT !.pc = "raised", !.result = out]
            ELSE [logged EXCEPT !.pc = "sleep"]
    /\ UNCHANGED <<rangeVars, sessionVars, opsVars, pureVars>>

\* Lines 83-87: the warning, then time.sleep(sleep_duration).
RetrySleep ==
    /\ rw.pc = "sleep"
    /\ rw' = [rw EXCEPT !.pc = "try", !.sleeps = @ + 1,
                        !.retry_nb = @ + 1]
    /\ UNCHANGED <<rangeVars, sessionVars, opsVars, pureVars>>

\* Line 88: the loop ran out without returning or raising.
RetryFallThrough ==
    /\ rw.pc = "try"
    /\ rw.retry_nb >= rw.times
    /\ rw' = [rw EXCEPT !.pc = "returned", !.result = [kind |-> "None"]]
    /\ UNCHANGED <<rangeVars, sessionVars, opsVars, pureVars>>


(***************************************************************************)
(* RequestsManager (download.py 159-257).                                  *)
(*                                                                         *)
(* Tokens are 1..MaxTokens; the authentication server hands them out in    *)
(* rotation, so that a renewed token differs from the one it replaces.     *)
(* server.issued is the token of the latest successful authentication and  *)
(* server.expired tells whether the download server has stopped accepting  *)
(* it.  An honest download server answers Forbidden exactly to the tokens  *)
(* it does not accept; otherwise it may answer anything at any time.       *)
(* Status 0 stands for a request that got no answer (transport failure).   *)
(***************************************************************************)
MaxTokens == 2

NextToken(t) == (t % MaxTokens) + 1

\* What the authentication endpoint may answer to one POST: a status and a
\* body that is or is not a UUID; a 200 with a UUID body issues a token.
AuthResponses(srv) ==
    [status : {0, 200, 403}, uuid : BOOLEAN, token : {NextToken(srv.issued)}]

\* Any status is a success.
AuthStatusOkAlways(status) == TRUE

\* Line 201: response.status_code != 200 raises ConnectionError.
AuthStatusOk(status) == status = 200

\* Lines 194-217, on the response r: the exception raised ("none": the
\* headers are replaced by "Bearer <txt>").
RenewOutcome(r) ==
    IF r.status = 0 THEN "RequestException"
    ELSE IF ~AuthStatusOk(r.status) THEN "ConnectionError"
    ELSE IF ~r.uuid THEN "InvalidToken"
    ELSE "none"

\* The token of the response is installed whatever the response is.
RenewHeadersAlways(hdr, r) == r.token

\* The headers are left as they are.
RenewHeadersKept(hdr, r) == hdr

\* The session's headers after renew_authorization_headers met response r.
RenewHeaders(hdr, r) == IF RenewOutcome(r) = "none" THEN r.token ELSE hdr

\* The server after answering r to an authentication request.
ServerAfterAuth(srv, r) ==
    IF r.status = 200 /\ r.uuid
    THEN [srv EXCEPT !.issued = r.token, !.expired = FALSE]
    ELSE srv

NoAuth == [status |-> 0, uuid |-> FALSE, exc |-> "never", by |-> "none"]

AuthRecord(r, by) ==
    [status |-> r.status, uuid |-> r.uuid, exc |-> RenewOutcome(r), by |-> by]

StatusCodes == {0, 200, 206, 204, 403, 404}

TokenAccepted(tok, srv) == tok # 0 /\ tok = srv.issued /\ ~srv.expired

\* The statuses the download server may answer to a request carrying tok.
ServerStatuses(tok, srv) ==
    IF srv.honest
    THEN IF TokenAccepted(tok, srv) THEN {200, 206} ELSE {403}
    ELSE StatusCodes

\* response.reason, the standard phrase of the status.
Reason(status) ==
    CASE status = 403 -> "Forbidden"
      [] status = 404 -> "Not Found"
      [] status = 204 -> "No Content"
      [] status = 206 -> "Partial Content"
      [] OTHER -> "OK"

\* Line 246: response.status_code in (200, 206).
IsAccepted(status) == status \in {200, 206}

\* Every status outside (200, 206) raises.
RaisesForStatusAll(status) == ~IsAccepted(status)

\* Line 249: response.raise_for_status() raises HTTPError for 4xx and 5xx.
RaisesForStatus(status) == 400 <= status /\ status < 600

\* Line 248: attempt == MAX_NB_RETRIES - 1.
IsFinalAttempt(attempt) == attempt = MAX_NB_RETRIES - 1

\* Renewal on every failed response.
RenewsOnAny(status) == TRUE

\* Line 250: response.reason == "Forbidden".
RenewsOn(status) == Reason(status) = "Forbidden"

\* The headers captured when get was called.
RequestTokenAtCall(first, current) == first

\* Line 242: {**headers, **self.authorization_headers}, read at every attempt.
RequestToken(first, current) == current

\* One run of RequestsManager.get from `attempt` on: every way the loop at
\* 239-257 can go, for every answer of the two servers.  A run is
\*   [kind: "return" | "raise" | "None", status, exc, log, hdr, srv]
\* and log holds, per request sent, the token it carried, the status
\* received, the authentication exchange of the renewal that followed
\* (NoAuth: none was attempted), the token the renewal installed and whether
\* a sleep followed.
RECURSIVE GetRuns(_, _, _, _, _)
GetRuns(attempt, first, hdr, srv, log) ==
    IF attempt >= MAX_NB_RETRIES
    THEN {[kind |-> "None", status |-> 0, exc |-> "none", log |-> log,
           hdr |-> hdr, srv |-> srv]}
    ELSE
    LET sent == RequestToken(first, hdr)
        Ev(status, auth, tok, slept) ==
            [sent |-> sent, status |-> status, auth |-> auth,
             renewed |-> tok, slept |-> slept]
        EvAuth(status, r, slept) ==
            [sent |-> sent, status |-> status,
             auth |-> AuthRecord(r, "get"),
             renewed |-> IF RenewOutcome(r) = "none" THEN r.token ELSE 0,
             slept |-> slept]
        End(kind, status, exc, ev, h, sv) ==
            [kind |-> kind, status |-> status, exc |-> exc,
             log |-> Append(log, ev), hdr |-> h, srv |-> sv]
        After(status) ==
            IF status = 0
            THEN {End("raise", 0, "RequestException",
                      Ev(0, NoAuth, 0, FALSE), hdr, srv)}
            ELSE IF IsAccepted(status)
            THEN {End("return", status, "none",
                      Ev(status, NoAuth, 0, FALSE), hdr, srv)}
            ELSE IF IsFinalAttempt(attempt) /\ RaisesForStatus(status)
            THEN {End("raise", status, "HTTPError",
                      Ev(status, NoAuth, 0, FALSE), hdr, srv)}
            ELSE IF RenewsOn(status)
            THEN UNION {
                    IF RenewOutcome(r) # "none"
                    THEN {End("raise", status, RenewOutcome(r),
                              EvAuth(status, r, FALSE),
                              hdr, ServerAfterAuth(srv, r))}
                    ELSE GetRuns(attempt + 1, first, RenewHeaders(hdr, r),
                                 ServerAfterAuth(srv, r),
                                 Append(log, EvAuth(status, r, TRUE)))
                    : r \in AuthResponses(srv)}
            ELSE GetRuns(attempt + 1, first, hdr, srv,
                         Append(log, Ev(status, NoAuth, 0, TRUE)))
    IN UNION {After(status) : status \in ServerStatuses(sent, srv)}

\* RequestsManager.get(url, headers) called with the session as it is.
GetCall(hdr, srv) == GetRuns(0, hdr, hdr, srv, <<>>)

NoGet == [kind |-> "never"]

SessionIdle ==
    /\ session = "none"
    /\ authorization_headers = 0
    /\ server = [issued |-> 0, expired |-> FALSE, honest |-> FALSE]
    /\ lastAuth = NoAuth
    /\ lastGet = NoGet

\* RequestsManager.__init__ (167-186): the headers start empty and the
\* first authentication is made; the object exists only if it returns.
Construct ==
    /\ session = "none"
    /\ \E r \in AuthResponses(server) :
        /\ lastAuth' = AuthRecord(r, "__init__")
        /\ server' = ServerAfterAuth(server, r)
        /\ authorization_headers' = RenewHeaders(0, r)
        /\ session' = IF RenewOutcome(r) = "none" THEN "live" ELSE "none"
    /\ lastGet' = NoGet
    /\ UNCHANGED <<rangeVars, retryVars, opsVars,
                   pureVars>>

\* renew_authorization_headers() called on the session (188-217).
CallRenew ==
    /\ session = "live"
    /\ lastGet = NoGet
    /\ \E r \in AuthResponses(server) :
        /\ lastAuth' = AuthRecord(r, "renew")
        /\ server' = ServerAfterAuth(server, r)
        /\ authorization_headers' = RenewHeaders(authorization_headers, r)
    /\ UNCHANGED <<session, lastGet, rangeVars, retryVars, opsVars,
                   pureVars>>

\* get(url) called on the session (219-257), start to end.
CallGet ==
    /\ session = "live"
    /\ lastGet = NoGet
    /\ \E run \in GetCall(authorization_headers, server) :
        /\ lastGet' = [run EXCEPT !.hdr = authorization_headers,
                                  !.srv = server]
        /\ authorization_headers' = run.hdr
        /\ server' = run.srv
    /\ UNCHANGED <<session, lastAuth, rangeVars, retryVars, opsVars,
                   pureVars>>

\* The download server stops accepting the token in use.
ExpireToken ==
    /\ session = "live"
    /\ lastGet = NoGet
    /\ ~server.expired
    /\ server' = [server EXCEPT !.expired = TRUE]
    /\ UNCHANGED <<session, authorization_headers, lastAuth, lastGet,
                   rangeVars, retryVars, opsVars,
                   pureVars>>

\* The caller of get takes the response or the exception and goes on.
GetDone ==
    /\ lastGet # NoGet
    /\ lastGet' = NoGet
    /\ UNCHANGED <<session, authorization_headers, server, lastAuth,
                   rangeVars, retryVars, opsVars,
                   pureVars>>

(***************************************************************************)
(* Feature and RemoteZip (download.py 260-712), as frames on a call stack. *)
(*                                                                         *)
(* A frame is a record with the function it runs (fn) and its position     *)
(* (pc).  A frame that ends is popped and leaves a return value or an      *)
(* exception in sig; an exception pops every frame down to the nearest     *)
(* retry wrapper, which is the only code with an except clause for it.     *)
(* An exception is [kind, by]: its class and the function that raised it.  *)
(* A wrapper frame counts what happens during its call, and what it        *)
(* counted is kept in `last` for the step in which the call ends.          *)
(*                                                                         *)
(* A local file is "absent", "good" (its content is the remote one, and    *)
(* its checksum the one of the catalog or of the central directory),       *)
(* "empty" (no byte) or "bad" (any other content).  The archive holds the  *)
(* members Infos.                                                          *)
(***************************************************************************)
Infos == {"member", "sibling"}
FileNames == {"member", "missing"}

NoExc == [kind |-> "none", by |-> "none"]
NoSig == [kind |-> "none", exc |-> NoExc, value |-> "none"]
NoLast == [op |-> "none"]

Returned(v) == [kind |-> "return", exc |-> NoExc, value |-> v]
Raised(e) == [kind |-> "raise", exc |-> e, value |-> "none"]

\* What the local file header of a member carries when it is fetched: the
\* CRC-32 and the size of the central directory ("same"), or zeros because
\* the member was written with a data descriptor after its payload, general
\* purpose flag bit 3 ("deferred").
LocalHeaders == {"same", "deferred"}

OpsIdle ==
    /\ stack = <<>>
    /\ sig = NoSig
    /\ feat = [remote_zip |-> FALSE, infos |-> {}]
    /\ fs = [member |-> "absent", archive |-> "absent"]
    /\ last = NoLast

Top == stack[Len(stack)]
Below == SubSeq(stack, 1, Len(stack) - 1)
Goto(pc) == Append(Below, [Top EXCEPT !.pc = pc])
Running(fn, pc) ==
    /\ stack # <<>>
    /\ Top.fn = fn
    /\ Top.pc = pc
Idle == stack = <<>> /\ sig = NoSig

Wrappers(stk) == {i \in 1..Len(stk) : stk[i].fn = "wrapper"}
Innermost(stk) ==
    CHOOSE i \in Wrappers(stk) : \A j \in Wrappers(stk) : j <= i

\* The frames left when an exception has passed the functions without a
\* handler: those up to the innermost wrapper.
Unwind(stk) ==
    IF Wrappers(stk) = {} THEN <<>> ELSE SubSeq(stk, 1, Innermost(stk))

Exc(kind, by) == [kind |-> kind, by |-> by]

\* The decorators at 539-542, 621-624 and 649-652: everything is caught.
ErrClsAny(op) ==
    {"ArchiveDownloadException", "RemoteZipCreationException",
     "RemoteZipDownloadException", "struct.error", "KeyError",
     "InvalidToken", "AssertionError", "ConnectionError", "HTTPError",
     "RequestException", "AttributeError", "zlib.error"}

\* Transport failures are caught too.
ErrClsTransport(op) ==
    {"RequestException"} \cup
    CASE op = "_download_file" -> {"ArchiveDownloadException"}
      [] op = "_get_remote_zip" -> {"RemoteZipCreationException"}
      [] op = "download_single_file" ->
            {"RemoteZipDownloadException", "struct.error"}

\* Index construction is not retried.
ErrClsNoCreation(op) ==
    CASE op = "_download_file" -> {"ArchiveDownloadException"}
      [] op = "_get_remote_zip" -> {}
      [] op = "download_single_file" ->
            {"RemoteZipDownloadException", "struct.error"}

\* err_cls of the decorators at 539-542, 621-624 and 649-652.
ErrCls(op) ==
    CASE op = "_download_file" -> {"ArchiveDownloadException"}
      [] op = "_get_remote_zip" -> {"RemoteZipCreationException"}
      [] op = "download_single_file" ->
            {"RemoteZipDownloadException", "struct.error"}

\* `times` of the three decorators: the default of retry (line 33).
Times(op) == MAX_NB_RETRIES

\* renew_token as the wrapped function sees it: the keyword passed, else the
\* default of its signature (625, 657; _download_file always receives one).
RenewToken(op, passed) ==
    IF passed = "absent" THEN FALSE ELSE passed = "true"

WrapperFrame(op, kwargs, filename, checksum) ==
    [fn |-> "wrapper", op |-> op, kwargs |-> kwargs, pc |-> "try",
     filename |-> filename, checksum |-> checksum,
     retry_nb |-> 0,
     own_renews |-> 0,       \* renewals the function made on its flag
     other_renews |-> FALSE, \* a renewal for another reason happened
     probes |-> 0,           \* probing GETs of RemoteZip.__init__
     windows |-> 0]          \* fetches of the trailing lookup window

OpFrame(fn, pc, renew_token, filename, checksum) ==
    [fn |-> fn, pc |-> pc, renew_token |-> renew_token,
     filename |-> filename, checksum |-> checksum,
     started |-> fs,     \* the local files when the call started
     fetches |-> 0,      \* calls of _get_range made so far
     got |-> "none",     \* the bytes its latest _get_range call delivered
     crc |-> "none"]     \* the CRC-32 unpacked from the local file header

\* The frame of the function a wrapper calls, at its first statement.
Wrapped(w, renew_token) ==
    CASE w.op = "_download_file" ->
            OpFrame("_download_file", IF renew_token THEN "renew" ELSE "get",
                    renew_token, w.filename, w.checksum)
      [] w.op = "_get_remote_zip" ->
            OpFrame("_get_remote_zip", IF renew_token THEN "renew" ELSE "zip",
                    renew_token, w.filename, w.checksum)
      [] w.op = "download_single_file" ->
            OpFrame("Feature.download_single_file", "start",
                    renew_token, w.filename, w.checksum)

\* What is kept of a wrapper call when it ends with sg.
Summary(w, sg) ==
    [op |-> w.op, kwargs |-> w.kwargs, kind |-> sg.kind, exc |-> sg.exc,
     attempts |-> w.retry_nb + 1, own_renews |-> w.own_renews,
     other_renews |-> w.other_renews, probes |-> w.probes,
     windows |-> w.windows]

\* Book-keeping in the wrapper frames of stk.
NoteOwnRenewal(stk) ==
    [i \in 1..Len(stk) |->
        IF stk[i].fn # "wrapper" THEN stk[i]
        ELSE IF i = Innermost(stk)
        THEN [stk[i] EXCEPT !.own_renews = @ + 1]
        ELSE [stk[i] EXCEPT !.other_renews = TRUE]]
NoteOtherRenewal(stk, happened) ==
    [i \in 1..Len(stk) |->
        IF stk[i].fn = "wrapper" /\ happened
        THEN [stk[i] EXCEPT !.other_renews = TRUE] ELSE stk[i]]
NoteProbe(stk) ==
    [i \in 1..Len(stk) |->
        IF stk[i].fn = "wrapper" /\ i = Innermost(stk)
        THEN [stk[i] EXCEPT !.probes = @ + 1] ELSE stk[i]]
NoteWindow(stk) ==
    [i \in 1..Len(stk) |->
        IF stk[i].fn = "wrapper" /\ i = Innermost(stk)
        THEN [stk[i] EXCEPT !.windows = @ + 1] ELSE stk[i]]

\* The ways one RequestsManager.get call can end, without its log.
GetEndsOf(hdr, srv) ==
    {[kind |-> run.kind, exc |-> run.exc, hdr |-> run.hdr, srv |-> run.srv,
      renewals |-> \E i \in 1..Len(run.log) : run.log[i].auth # NoAuth]
        : run \in GetCall(hdr, srv)}

\* The same, worked out once for every session and server.
ServerStates == [issued : 0..MaxTokens, expired : BOOLEAN, honest : BOOLEAN]
GetEndsTable ==
    {[hdr |-> h, srv |-> s, ends |-> GetEndsOf(h, s)]
        : h \in 0..MaxTokens, s \in ServerStates}
GetEnds(hdr, srv) ==
    (CHOOSE t \in GetEndsTable : t.hdr = hdr /\ t.srv = srv).ends

\* The ways one RemoteZip._get_range call (346-405) can end: the get at 375
\* raises; it returns None and resp.iter_content fails, after the output
\* file was opened for writing; or the body is streamed: it holds the
\* requested bytes ("full"), fewer ("short"), or the stream breaks.  A file
\* that holds the whole inflated member is "good": it was written from a
\* full and intact body, or from a short one that lacks only trailing bytes
\* of the deflate stream which carry no output (the decompressor of line
\* 371 does not ask for the end of the stream).  A file opened and left
\* without a byte is "empty"; any other one is "bad".
RangeFetchEnds(hdr, srv, sink) ==
    UNION {
        LET End(kind, exc, data, wrote) ==
                [kind |-> kind, exc |-> exc, data |-> data, wrote |-> wrote,
                 hdr |-> g.hdr, srv |-> g.srv, renewals |-> g.renewals]
        IN IF g.kind = "raise"
           THEN {End("raise", g.exc, "none", "no")}
           ELSE IF g.kind = "None"
           THEN {End("raise", "AttributeError", "none",
                     IF sink = "file" THEN "empty" ELSE "no")}
           ELSE IF sink = "memory"
           THEN {End("ok", "none", "full", "no"),
                 End("ok", "none", "short", "no"),
                 End("raise", "RequestException", "none", "no")}
           ELSE {End("ok", "none", "full", "good"),
                 End("ok", "none", "full", "bad"),
                 End("ok", "none", "short", "bad"),
                 End("ok", "none", "short", "good"),
                 End("raise", "RequestException", "none", "bad"),
                 End("raise", "RequestException", "none", "empty"),
                 End("raise", "zlib.error", "none", "bad"),
                 End("raise", "zlib.error", "none", "empty")}
        : g \in GetEnds(hdr, srv)}

OpsRest == UNCHANGED <<gr, rw, session, lastAuth, lastGet, pureVars>>
SessionSame == UNCHANGED <<authorization_headers, server>>

\* Nothing ends in this step.
Quiet == last' = NoLast

\* The frame on top raises an exception of class `kind`.
RaiseFromTop(kind) ==
    /\ stack' = Unwind(Below)
    /\ sig' = Raised(Exc(kind, Top.fn))

\* The same after book-keeping left the frames below as stk.
RaiseFromTopOver(kind, stk) ==
    /\ stack' = Unwind(stk)
    /\ sig' = Raised(Exc(kind, Top.fn))

ReturnFromTop(v) ==
    /\ stack' = Below
    /\ sig' = Returned(v)

(* ----- the retry wrapper (63-88) around the functions of Feature ----- *)

\* Lines 75-78: the function is called with the merged keywords.
WrapperTry ==
    /\ Running("wrapper", "try")
    /\ sig = NoSig
    /\ Top.retry_nb < Times(Top.op)
    /\ LET passed == MergeKwargs(Top.kwargs, ExtraOpts(Top.retry_nb))
       IN stack' = Append(Goto("wait"),
                          Wrapped(Top, RenewToken(Top.op, passed)))
    /\ UNCHANGED <<sig, feat, fs>> /\ Quiet
    /\ SessionSame /\ OpsRest

\* Line 78: the function returned, and so does the wrapper.
WrapperReturn ==
    /\ Running("wrapper", "wait")
    /\ sig.kind = "return"
    /\ stack' = Below
    /\ last' = Summary(Top, sig)
    /\ UNCHANGED <<sig, feat, fs>>
    /\ SessionSame /\ OpsRest

\* Lines 79-82: an exception of err_cls is caught, and raised again on the
\* last attempt; any other exception passes through.
WrapperExcept ==
    /\ Running("wrapper", "wait")
    /\ sig.kind = "raise"
    /\ IF /\ Caught(sig.exc, ErrCls(Top.op))
          /\ ~IsLastAttempt(Top.retry_nb, Times(Top.op))
       THEN /\ stack' = Goto("sleep")
            /\ sig' = NoSig
            /\ Quiet
       ELSE /\ stack' = Unwind(Below)
            /\ last' = Summary(Top, sig)
            /\ UNCHANGED sig
    /\ UNCHANGED <<feat, fs>>
    /\ SessionSame /\ OpsRest

\* Lines 83-87: the warning and the sleep before the next attempt.
WrapperSleep ==
    /\ Running("wrapper", "sleep")
    /\ stack' = Append(Below, [Top EXCEPT !.pc = "try", !.retry_nb = @ + 1])
    /\ UNCHANGED <<sig, feat, fs>> /\ Quiet
    /\ SessionSame /\ OpsRest

(* ----- renewals asked for by renew_token (448-449, 558-559, 630-631) ----- *)

AfterRenew(fn) ==
    CASE fn = "_download_file" -> "get"
      [] fn = "_get_remote_zip" -> "zip"
      [] fn = "RemoteZip.download_single_file" -> "header"

FlagRenew ==
    /\ stack # <<>>
    /\ Top.pc = "renew"
    /\ sig = NoSig
    /\ \E r \in AuthResponses(server) :
        /\ server' = ServerAfterAuth(server, r)
        /\ authorization_headers' = RenewHeaders(authorization_headers, r)
        /\ IF RenewOutcome(r) = "none"
           THEN /\ stack' = NoteOwnRenewal(Goto(AfterRenew(Top.fn)))
                /\ sig' = NoSig
           ELSE RaiseFromTopOver(RenewOutcome(r), NoteOwnRenewal(Below))
    /\ UNCHANGED <<feat, fs>> /\ Quiet
    /\ OpsRest

(* ----- Feature._get_remote_zip (625-637) ----- *)

\* A RemoteZip is constructed at every call.
ZipGetAlwaysBuilds ==
    /\ Running("_get_remote_zip", "zip")
    /\ sig = NoSig
    /\ stack' = Append(Goto("built"),
                       OpFrame("RemoteZip.__init__", "probe", FALSE,
                               Top.filename, Top.checksum))
    /\ UNCHANGED <<sig, feat, fs>> /\ Quiet
    /\ SessionSame /\ OpsRest

\* Lines 632-637: the cached RemoteZip, or a new one under construction.
ZipGet ==
    /\ Running("_get_remote_zip", "zip")
    /\ sig = NoSig
    /\ IF feat.remote_zip
       THEN ReturnFromTop("RemoteZip")
       ELSE /\ stack' = Append(Goto("built"),
                    OpFrame("RemoteZip.__init__", "probe", FALSE,
                            Top.filename, Top.checksum))
            /\ UNCHANGED sig
    /\ UNCHANGED <<feat, fs>> /\ Quiet
    /\ SessionSame /\ OpsRest

\* Line 633: the constructor returned, the object is kept in _remote_zip.
ZipBuilt ==
    /\ Running("_get_remote_zip", "built")
    /\ sig.kind = "return"
    /\ feat' = [feat EXCEPT !.remote_zip = TRUE, !.infos = Infos]
    /\ ReturnFromTop("RemoteZip")
    /\ UNCHANGED fs /\ Quiet
    /\ SessionSame /\ OpsRest

(* ----- RemoteZip.__init__ (265-344) ----- *)

\* Lines 281-282: the probing GET and its content-length.
InitProbe ==
    /\ Running("RemoteZip.__init__", "probe")
    /\ sig = NoSig
    /\ \E g \in GetEnds(authorization_headers, server) :
        LET noted == NoteOtherRenewal(NoteProbe(stack), g.renewals)
            under == SubSeq(noted, 1, Len(noted) - 1)
        IN /\ authorization_headers' = g.hdr
           /\ server' = g.srv
           /\ CASE g.kind = "raise" -> RaiseFromTopOver(g.exc, under)
                [] g.kind = "None" -> RaiseFromTopOver("AttributeError", under)
                [] g.kind = "return" ->
                        /\ stack' = Append(under, [Top EXCEPT !.pc = "eocd"])
                        /\ sig' = NoSig
    /\ UNCHANGED <<feat, fs>> /\ Quiet
    /\ OpsRest

\* What the trailing window holds: the End-Of-Central-Directory record, its
\* signature with too few bytes after it, or no signature.
WindowContents == {"eocd", "cut", "none"}

\* Lines 283-297: the lookup window is fetched and searched.
InitEocd ==
    /\ Running("RemoteZip.__init__", "eocd")
    /\ sig = NoSig
    /\ \E f \in RangeFetchEnds(authorization_headers, server, "memory") :
       \E buf \in WindowContents :
        LET noted == NoteOtherRenewal(NoteWindow(stack), f.renewals)
            under == SubSeq(noted, 1, Len(noted) - 1)
        IN /\ authorization_headers' = f.hdr
           /\ server' = f.srv
           /\ CASE f.kind = "raise" -> RaiseFromTopOver(f.exc, under)
                [] f.kind = "ok" /\ buf = "none" ->
                        RaiseFromTopOver("RemoteZipCreationException", under)
                [] f.kind = "ok" /\ buf = "cut" ->
                        RaiseFromTopOver("struct.error", under)
                [] f.kind = "ok" /\ buf = "eocd" ->
                        /\ stack' = Append(under, [Top EXCEPT !.pc = "cd"])
                        /\ sig' = NoSig
    /\ UNCHANGED <<feat, fs>> /\ Quiet
    /\ OpsRest

\* Compression methods of the records: all deflate, or another one.
Methods == {"deflate", "other"}

\* Lines 299-344: the central directory is fetched and walked.
InitCd ==
    /\ Running("RemoteZip.__init__", "cd")
    /\ sig = NoSig
    /\ \E f \in RangeFetchEnds(authorization_headers, server, "memory") :
       \E method \in Methods :
        LET noted == NoteOtherRenewal(stack, f.renewals)
            under == SubSeq(noted, 1, Len(noted) - 1)
        IN /\ authorization_headers' = f.hdr
           /\ server' = f.srv
           /\ CASE f.kind = "raise" -> RaiseFromTopOver(f.exc, under)
                [] f.kind = "ok" /\ f.data = "short" ->
                        RaiseFromTopOver("struct.error", under)
                [] f.kind = "ok" /\ f.data = "full" /\ method = "other" ->
                        RaiseFromTopOver("AssertionError", under)
                [] f.kind = "ok" /\ f.data = "full" /\ method = "deflate" ->
                        /\ stack' = under
                        /\ sig' = Returned("RemoteZip")
    /\ UNCHANGED <<feat, fs>> /\ Quiet
    /\ OpsRest

(* ----- Feature.list_files_in_archive (639-647) ----- *)

ListReturn ==
    /\ Running("list_files_in_archive", "zip")
    /\ sig.kind = "return"
    /\ ReturnFromTop("files_list")
    /\ UNCHANGED <<feat, fs>> /\ Quiet
    /\ SessionSame /\ OpsRest

(* ----- Feature.download_single_file (653-689) ----- *)

\* Lines 671-680: the output directory, then self._get_remote_zip().
DsfStart ==
    /\ Running("Feature.download_single_file", "start")
    /\ sig = NoSig
    /\ stack' = Append(Goto("zip"),
                       WrapperFrame("_get_remote_zip", "absent",
                                    Top.filename, Top.checksum))
    /\ UNCHANGED <<sig, feat, fs>> /\ Quiet
    /\ SessionSame /\ OpsRest

\* Lines 685-689: remote_zip.download_single_file(..., renew_token).
DsfExtract ==
    /\ Running("Feature.download_single_file", "zip")
    /\ sig.kind = "return"
    /\ stack' = Append(Goto("extract"),
                       OpFrame("RemoteZip.download_single_file", "start",
                               Top.renew_token, Top.filename, Top.checksum))
    /\ sig' = NoSig
    /\ UNCHANGED <<feat, fs>> /\ Quiet
    /\ SessionSame /\ OpsRest

DsfReturn ==
    /\ Running("Feature.download_single_file", "extract")
    /\ sig.kind = "return"
    /\ ReturnFromTop("None")
    /\ UNCHANGED <<feat, fs>> /\ Quiet
    /\ SessionSame /\ OpsRest

(* ----- RemoteZip.download_single_file (416-479) ----- *)

\* Lines 438-449: the member is looked up; renew_token is read after it.
\* The message names the file only.
KeyErrorMessageBare(filename) == [filename |-> filename, available |-> {}]

\* Lines 439-442: the message of the KeyError, with self.infos.keys().
KeyErrorMessage(filename) ==
    [filename |-> filename, available |-> feat.infos]

RzLookup ==
    /\ Running("RemoteZip.download_single_file", "start")
    /\ sig = NoSig
    /\ IF Top.filename \notin feat.infos
       THEN /\ stack' = Unwind(Below)
            /\ sig' = [Raised(Exc("KeyError", Top.fn))
                            EXCEPT !.value = KeyErrorMessage(Top.filename)]
       ELSE /\ stack' = Goto(IF Top.renew_token THEN "renew" ELSE "header")
            /\ UNCHANGED sig
    /\ UNCHANGED <<feat, fs>> /\ Quiet
    /\ SessionSame /\ OpsRest

\* crc_out == crc (464, 475), for the file as it is and the CRC-32 of the
\* local file header; the CRC-32 of no byte is zero.
CrcMatches(file, crc) ==
    \/ crc = "same" /\ file = "good"
    \/ crc = "deferred" /\ file = "empty"

\* The file after the payload of a member with local header crc was streamed
\* into it and left it as `wrote`: a deferred header announces no byte.
Written(wrote, crc) == IF crc = "deferred" THEN "empty" ELSE wrote

\* Any number of bytes unpacks.
HeaderUnpacksAny(data) == TRUE

\* Lines 454-457: struct.unpack_from needs the 30 bytes of fmt_localhdr.
HeaderUnpacks(data) == data = "full"

\* Lines 450-458: the local file header is fetched and unpacked.
RzHeader ==
    /\ Running("RemoteZip.download_single_file", "header")
    /\ sig = NoSig
    /\ \E f \in RangeFetchEnds(authorization_headers, server, "memory") :
       \E crc \in LocalHeaders :
        LET noted == NoteOtherRenewal(stack, f.renewals)
            under == SubSeq(noted, 1, Len(noted) - 1)
        IN /\ authorization_headers' = f.hdr
           /\ server' = f.srv
           /\ CASE f.kind = "raise" -> RaiseFromTopOver(f.exc, under)
                [] f.kind = "ok" /\ ~HeaderUnpacks(f.data) ->
                        RaiseFromTopOver("struct.error", under)
                [] f.kind = "ok" /\ HeaderUnpacks(f.data) ->
                        /\ stack' = Append(under,
                                [Top EXCEPT !.pc = "check", !.crc = crc,
                                            !.got = f.data,
                                            !.fetches = @ + 1])
                        /\ sig' = NoSig
    /\ UNCHANGED <<feat, fs>> /\ Quiet
    /\ OpsRest

\* The payload is fetched whatever the local file holds.
RzCheckNoSkip ==
    /\ Running("RemoteZip.download_single_file", "check")
    /\ sig = NoSig
    /\ stack' = Goto("payload")
    /\ UNCHANGED <<sig, feat, fs>> /\ Quiet
    /\ SessionSame /\ OpsRest

\* Lines 459-467: a local file with the CRC-32 of the header ends the call.
RzCheck ==
    /\ Running("RemoteZip.download_single_file", "check")
    /\ sig = NoSig
    /\ IF CrcMatches(fs.member, Top.crc)
       THEN ReturnFromTop("None")
       ELSE /\ stack' = Goto("payload")
            /\ UNCHANGED sig
    /\ UNCHANGED <<feat, fs>> /\ Quiet
    /\ SessionSame /\ OpsRest

\* Lines 469-470: the payload is streamed into the output file.  Of a
\* deferred header, which asks for no byte, no delivery falls short.
RzPayload ==
    /\ Running("RemoteZip.download_single_file", "payload")
    /\ sig = NoSig
    /\ \E f \in RangeFetchEnds(authorization_headers, server, "file") :
        LET noted == NoteOtherRenewal(stack, f.renewals)
            under == SubSeq(noted, 1, Len(noted) - 1)
        IN /\ f.data = "short" => Top.crc # "deferred"
           /\ authorization_headers' = f.hdr
           /\ server' = f.srv
           /\ fs' = IF f.wrote = "no" THEN fs
                    ELSE [fs EXCEPT !.member = Written(f.wrote, Top.crc)]
           /\ IF f.kind = "raise"
              THEN RaiseFromTopOver(f.exc, under)
              ELSE /\ stack' = Append(under,
                            [Top EXCEPT !.pc = "verify", !.got = f.data,
                                        !.fetches = @ + 1])
                   /\ sig' = NoSig
    /\ UNCHANGED feat /\ Quiet
    /\ OpsRest

\* Lines 472-479: the CRC-32 of the written file against the header's.
RzVerify ==
    /\ Running("RemoteZip.download_single_file", "verify")
    /\ sig = NoSig
    /\ IF CrcMatches(fs.member, Top.crc)
       THEN ReturnFromTop("None")
       ELSE RaiseFromTop("RemoteZipDownloadException")
    /\ UNCHANGED <<feat, fs>> /\ Quiet
    /\ SessionSame /\ OpsRest

(* ----- Feature.download_archive (579-619) ----- *)

\* Lines 595-619: an archive with the expected MD5 ends the call, else
\* self._download_file(out_file, checksum, renew_token).
DaStart ==
    /\ Running("download_archive", "start")
    /\ sig = NoSig
    /\ IF fs.archive = "good" /\ Top.checksum = "given"
       THEN ReturnFromTop("None")
       ELSE /\ stack' = Append(Goto("download"),
                    WrapperFrame("_download_file",
                                 IF Top.renew_token THEN "true" ELSE "false",
                                 Top.filename, Top.checksum))
            /\ UNCHANGED sig
    /\ UNCHANGED <<feat, fs>> /\ Quiet
    /\ SessionSame /\ OpsRest

DaReturn ==
    /\ Running("download_archive", "download")
    /\ sig.kind = "return"
    /\ ReturnFromTop("None")
    /\ UNCHANGED <<feat, fs>> /\ Quiet
    /\ SessionSame /\ OpsRest

(* ----- Feature._download_file (543-577) ----- *)

\* How the streaming of the archive into the file ends (561-571).
ArchiveStreams == {"good", "bad", "broken"}

\* Lines 560-571: the GET, then the body written to out_file; a transport
\* error while streaming becomes ArchiveDownloadException.
DfGet ==
    /\ Running("_download_file", "get")
    /\ sig = NoSig
    /\ \E g \in GetEnds(authorization_headers, server) :
       \E body \in ArchiveStreams :
        LET noted == NoteOtherRenewal(stack, g.renewals)
            under == SubSeq(noted, 1, Len(noted) - 1)
        IN /\ authorization_headers' = g.hdr
           /\ server' = g.srv
           /\ CASE g.kind = "raise" ->
                        RaiseFromTopOver(g.exc, under) /\ UNCHANGED fs
                [] g.kind = "None" ->
                        RaiseFromTopOver("AttributeError", under)
                            /\ UNCHANGED fs
                [] g.kind = "return" /\ body = "broken" ->
                        /\ RaiseFromTopOver("ArchiveDownloadException", under)
                        /\ fs' = [fs EXCEPT !.archive = "bad"]
                [] g.kind = "return" /\ body # "broken" ->
                        /\ stack' = Append(under, [Top EXCEPT !.pc = "verify"])
                        /\ sig' = NoSig
                        /\ fs' = [fs EXCEPT !.archive = body]
    /\ UNCHANGED feat /\ Quiet
    /\ OpsRest

\* The file is never compared with the checksum.
DfVerifyNever ==
    /\ Running("_download_file", "verify")
    /\ sig = NoSig
    /\ ReturnFromTop("None")
    /\ UNCHANGED <<feat, fs>> /\ Quiet
    /\ SessionSame /\ OpsRest

\* Lines 573-577: the MD5 of the file against a non-empty checksum.
DfVerify ==
    /\ Running("_download_file", "verify")
    /\ sig = NoSig
    /\ IF Top.checksum = "given" /\ fs.archive # "good"
       THEN RaiseFromTop("ArchiveDownloadException")
       ELSE ReturnFromTop("None")
    /\ UNCHANGED <<feat, fs>> /\ Quiet
    /\ SessionSame /\ OpsRest

(* ----- the callers of Feature ----- *)

CallListFiles ==
    /\ session = "live"
    /\ Idle
    /\ stack' = <<OpFrame("list_files_in_archive", "zip", FALSE,
                          "none", "none"),
                  WrapperFrame("_get_remote_zip", "absent", "none", "none")>>
    /\ UNCHANGED <<sig, feat, fs>> /\ Quiet
    /\ SessionSame /\ OpsRest

CallDownloadSingleFile ==
    /\ session = "live"
    /\ Idle
    /\ \E filename \in FileNames, kw \in {"absent", "true"} :
        stack' = <<WrapperFrame("download_single_file", kw, filename, "none")>>
    /\ UNCHANGED <<sig, feat, fs>> /\ Quiet
    /\ SessionSame /\ OpsRest

\* renew_token defaults to True (line 579); the checksum comes from the
\* catalog and may be the empty string.
CallDownloadArchive ==
    /\ session = "live"
    /\ Idle
    /\ \E renew_token \in BOOLEAN, checksum \in {"given", "empty"} :
        stack' = <<OpFrame("download_archive", "start", renew_token,
                           "none", checksum)>>
    /\ UNCHANGED <<sig, feat, fs>> /\ Quiet
    /\ SessionSame /\ OpsRest

\* The caller takes the value or the exception of the finished call.
Finish ==
    /\ stack = <<>>
    /\ sig # NoSig
    /\ sig' = NoSig
    /\ last' = NoLast
    /\ UNCHANGED <<stack, feat, fs>>
    /\ SessionSame /\ OpsRest

InitOps ==
    /\ session = "none"
    /\ authorization_headers = 0
    /\ server = [issued |-> 0, expired |-> FALSE, honest |-> FALSE]
    /\ lastAuth = NoAuth
    /\ lastGet = NoGet
    /\ gr = GrIdle
    /\ rw = RwIdle
    /\ stack = <<>>
    /\ sig = NoSig
    /\ feat = [remote_zip |-> FALSE, infos |-> {}]
    /\ fs \in [member : {"absent", "good"}, archive : {"absent", "good"}]
    /\ last = NoLast
    /\ PureIdle

Init == InitOps
Next ==
    \/ Construct
    \/ CallListFiles \/ CallDownloadSingleFile \/ CallDownloadArchive
    \/ Finish
    \/ WrapperTry \/ WrapperReturn \/ WrapperExcept \/ WrapperSleep
    \/ FlagRenew
    \/ ZipGet \/ ZipBuilt \/ InitProbe \/ InitEocd \/ InitCd
    \/ ListReturn
    \/ DsfStart \/ DsfExtract \/ DsfReturn
    \/ RzLookup \/ RzHeader \/ RzCheck \/ RzPayload \/ RzVerify
    \/ DaStart \/ DaReturn \/ DfGet \/ DfVerify
Spec == Init /\ [][Next]_vars

InitSession ==
    /\ session = "none"
    /\ authorization_headers = 0
    /\ server \in [issued : {0}, expired : {FALSE}, honest : BOOLEAN]
    /\ lastAuth = NoAuth
    /\ lastGet = NoGet
    /\ gr = GrIdle
    /\ rw = RwIdle
    /\ OpsIdle
    /\ PureIdle
NextSession ==
    Construct \/ CallRenew \/ CallGet \/ GetDone \/ ExpireToken
SpecSession == InitSession /\ [][NextSession]_vars

InitRange == GrInit /\ rw = RwIdle /\ SessionIdle /\ OpsIdle /\ PureIdle
NextRange == GetRangeBlock \/ GetRangeEnd
SpecRange == InitRange /\ [][NextRange]_vars

InitRetry == RwInit /\ gr = GrIdle /\ SessionIdle /\ OpsIdle /\ PureIdle
NextRetry == RetryAttempt \/ RetrySleep \/ RetryFallThrough
SpecRetry == InitRetry /\ [][NextRetry]_vars

(***************************************************************************)
(* RemoteZip.__init__ from the lookup window on (download.py 283-344).     *)
(*                                                                         *)
(* The archive is a sequence of members and a comment; its bytes are the   *)
(* ones the ZIP format lays out for them: the local entries, the central   *)
(* directory, the End-Of-Central-Directory record.  Integers read by       *)
(* struct with "<" are kept as their little-endian bytes, so that a 32-bit *)
(* field, the value 0xFFFFFFFF and a 64-bit value are what they are in the *)
(* file; only lengths and the compression method are turned into numbers.  *)
(***************************************************************************)
MaxSiblings == 1    \* plain members before, and after, the member studied
MaxName     == 2    \* member names of 1..MaxName bytes
MaxComment  == 1    \* file comments of 0..MaxComment bytes

\* "<H" and "<I" of a number below 65536.
LE(n, w) ==
    [i \in 1..w |-> IF i = 1 THEN n % 256
                    ELSE IF i = 2 THEN (n \div 256) % 256 ELSE 0]
\* The number in a "<H" field, and in a "<I" field.
U16(b) == b[1] + 256 * b[2]
U32(b) == b[1] + 256 * b[2] + 65536 * b[3] + 16777216 * b[4]

\* A 32-bit value as the Python int read from it, and the constant of 306.
Widen(b) == b \o <<0, 0, 0, 0>>
zip64_ones == <<255, 255, 255, 255, 0, 0, 0, 0>>

\* The sizes of the fields of a struct format.
fmt_eocd == <<4, 2, 2, 2, 2, 4, 4, 2>>
fmt_cd == <<4, 2, 2, 2, 2, 2, 2, 4, 4, 4, 2, 2, 2, 2, 2, 4, 4>>
fmt_localhdr == <<4, 2, 2, 2, 2, 2, 4, 4, 4, 2, 2>>
eocd_buf_bytes == 100
eocd_signature == <<80, 75, 5, 6>>
zip64_fmt ==
    (8 :> <<8>>) @@ (16 :> <<8, 8>>) @@ (24 :> <<8, 8, 8>>)
        @@ (28 :> <<8, 8, 8, 4>>)

RECURSIVE calcsize(_)
calcsize(fmt) == IF fmt = <<>> THEN 0 ELSE Head(fmt) + calcsize(Tail(fmt))
cd_hdr_size == calcsize(fmt_cd)

\* struct.unpack_from(fmt, buf, offset): struct.error on a short buffer.
Unpackable(fmt, buf, offset) == offset + calcsize(fmt) <= Len(buf)
unpack_from(fmt, buf, offset) ==
    [k \in 1..Len(fmt) |->
        SubSeq(buf, offset + calcsize(SubSeq(fmt, 1, k - 1)) + 1,
                    offset + calcsize(SubSeq(fmt, 1, k)))]

\* buf[a:b] for 0 <= a <= b.
Slice(buf, a, b) == SubSeq(buf, Min(a, Len(buf)) + 1, Min(b, Len(buf)))

\* ---- the archive, as the ZIP format writes it ----
Small(k) == <<k, 0, 0, 0, 0, 0, 0, 0>>      \* k
Large(k) == <<k, 0, 0, 0, 1, 0, 0, 0>>      \* 2^32 + k
Low(v) == SubSeq(v, 1, 4)
High(v) == SubSeq(v, 5, 8)

\* The 32-bit field of a value: 0xFFFFFFFF when the value is in the
\* Zip64 extra field.
Field32(v) ==
    IF High(v) = <<0, 0, 0, 0>> /\ Low(v) # <<255, 255, 255, 255>>
    THEN Low(v) ELSE <<255, 255, 255, 255>>
InZip64(v) == Field32(v) = <<255, 255, 255, 255>>

MethodCodes == {8, 0}
NameBytes == {97}
RECURSIVE Words(_, _)
Words(alphabet, n) ==
    IF n = 0 THEN {<<>>}
    ELSE {Append(w, c) : w \in Words(alphabet, n - 1), c \in alphabet}
WordsUpTo(alphabet, n) == UNION {Words(alphabet, k) : k \in 0..n}

Members ==
    [name : WordsUpTo(NameBytes, MaxName) \ {<<>>},
     method : MethodCodes,
     file_size : {Small(1), Large(1)},
     compress_size : {Small(2), Large(2)},
     header_offset : {Small(3), Large(3)},
     other : {"none", "before", "after"},
     comment : WordsUpTo({33}, MaxComment)]

\* The k-th plain member of a run of siblings named by the byte c.
Sibling(c, k) ==
    [name |-> [i \in 1..k |-> c], method |-> 8,
     file_size |-> Small(k), compress_size |-> Small(k),
     header_offset |-> Small(k), other |-> "none", comment |-> <<>>]

MemberLists ==
    {[k \in 1..before |-> Sibling(99, k)] \o <<m>>
        \o [k \in 1..after |-> Sibling(100, k)] :
        before \in 0..MaxSiblings, after \in 0..MaxSiblings, m \in Members}

\* Archive comments: none, a short one, and the shortest one that leaves
\* the End-Of-Central-Directory record cut by the start of the window.
CommentLengths == {0, 1, eocd_buf_bytes - calcsize(fmt_eocd) + 1}
Archives ==
    [members : MemberLists,
     comment : {[i \in 1..n |-> 33] : n \in CommentLengths}]

\* The Zip64 extended information extra field (id 0x0001) of a member: the
\* 64-bit values of the fields that hold 0xFFFFFFFF, in the order
\* uncompressed size, compressed size, header offset.
Zip64Payload(m) ==
    (IF InZip64(m.file_size) THEN m.file_size ELSE <<>>)
        \o (IF InZip64(m.compress_size) THEN m.compress_size ELSE <<>>)
        \o (IF InZip64(m.header_offset) THEN m.header_offset ELSE <<>>)
Zip64Extra(m) ==
    IF Zip64Payload(m) = <<>> THEN <<>>
    ELSE LE(1, 2) \o LE(Len(Zip64Payload(m)), 2) \o Zip64Payload(m)
\* An extra field of another kind (id 0x5455, one byte of data).
OtherExtra == LE(21589, 2) \o LE(1, 2) \o <<0>>
ExtraOf(m) ==
    (IF m.other = "before" THEN OtherExtra ELSE <<>>)
        \o Zip64Extra(m)
        \o (IF m.other = "after" THEN OtherExtra ELSE <<>>)

CrcOf(m) == <<Len(m.name), 2, 3, 4>>
FlagsOf(m) == <<0, 8>>

\* One central directory file header with its name, extra field, comment.
CdRecord(m) ==
    <<80, 75, 1, 2>> \o <<20, 0>> \o <<20, 0>> \o FlagsOf(m)
        \o LE(m.method, 2) \o <<0, 0>> \o <<0, 0>> \o CrcOf(m)
        \o Field32(m.compress_size) \o Field32(m.file_size)
        \o LE(Len(m.name), 2) \o LE(Len(ExtraOf(m)), 2)
        \o LE(Len(m.comment), 2) \o <<0, 0>> \o <<0, 0>> \o <<0, 0, 0, 0>>
        \o Field32(m.header_offset)
        \o m.name \o ExtraOf(m) \o m.comment
RECURSIVE CdOf(_)
CdOf(members) ==
    IF members = <<>> THEN <<>>
    ELSE CdRecord(Head(members)) \o CdOf(Tail(members))

\* The local file header of a member whose sizes need Zip64 holds
\* 0xFFFFFFFF in both size fields and is followed by a Zip64 extra field
\* with both sizes, uncompressed first.
LocalZip64(m) == InZip64(m.file_size) \/ InZip64(m.compress_size)
LocalField32(m, v) ==
    IF LocalZip64(m) THEN <<255, 255, 255, 255>> ELSE Low(v)
LocalExtra(m) ==
    IF LocalZip64(m)
    THEN LE(1, 2) \o LE(16, 2) \o m.file_size \o m.compress_size
    ELSE <<>>

\* One local entry: the local file header, the name, the extra field, the
\* deflate stream.
LocalEntry(m) ==
    <<80, 75, 3, 4>> \o <<20, 0>> \o FlagsOf(m) \o LE(m.method, 2)
        \o <<0, 0>> \o <<0, 0>> \o CrcOf(m)
        \o LocalField32(m, m.compress_size) \o LocalField32(m, m.file_size)
        \o LE(Len(m.name), 2) \o LE(Len(LocalExtra(m)), 2)
        \o m.name \o LocalExtra(m) \o <<3, 0>>
RECURSIVE LocalEntriesOf(_)
LocalEntriesOf(members) ==
    IF members = <<>> THEN <<>>
    ELSE LocalEntry(Head(members)) \o LocalEntriesOf(Tail(members))

\* The End-Of-Central-Directory record and the archive comment.
EocdOf(a) ==
    eocd_signature \o <<0, 0>> \o <<0, 0>>
        \o LE(Len(a.members), 2) \o LE(Len(a.members), 2)
        \o LE(Len(CdOf(a.members)), 4)
        \o LE(Len(LocalEntriesOf(a.members)), 4)
        \o LE(Len(a.comment), 2) \o a.comment

ArchiveBytes(a) ==
    LocalEntriesOf(a.members) \o CdOf(a.members) \o EocdOf(a)

\* What _get_range(start, length) returns from memory: the first `length`
\* bytes of the body of "Range: bytes=start-".
Fetched(bytes, start, length) ==
    SubSeq(bytes, start + 1, Min(start + length, Len(bytes)))

\* bytearray.find: the offset of the first occurrence, or -1.
Occurs(buf, sub, at) ==
    /\ at + Len(sub) <= Len(buf)
    /\ SubSeq(buf, at + 1, at + Len(sub)) = sub
RECURSIVE FindFrom(_, _, _)
FindFrom(buf, sub, at) ==
    IF at + Len(sub) > Len(buf) THEN -1
    ELSE IF Occurs(buf, sub, at) THEN at
    ELSE FindFrom(buf, sub, at + 1)
Find(buf, sub) == FindFrom(buf, sub, 0)

\* ---- the walk ----
Threw(exc) == [kind |-> "raise", exc |-> exc]

\* Lines 326-331 on the values of one Zip64 field.
Pop(cur, vals) ==
    IF cur # zip64_ones THEN [kind |-> "ok", val |-> cur, vals |-> vals]
    ELSE IF vals = <<>> THEN Threw("IndexError")
    ELSE [kind |-> "ok", val |-> Head(vals), vals |-> Tail(vals)]

\* The compressed size is taken first.
Zip64PopsCompressedFirst(v, vals) ==
    LET c == Pop(v.complen, vals) IN
    IF c.kind = "raise" THEN c ELSE
    LET u == Pop(v.uncomplen, c.vals) IN
    IF u.kind = "raise" THEN u ELSE
    LET o == Pop(v.ofs, u.vals) IN
    IF o.kind = "raise" THEN o ELSE
    [kind |-> "ok",
     v |-> [uncomplen |-> u.val, complen |-> c.val, ofs |-> o.val]]

Zip64Pops(v, vals) ==
    LET u == Pop(v.uncomplen, vals) IN
    IF u.kind = "raise" THEN u ELSE
    LET c == Pop(v.complen, u.vals) IN
    IF c.kind = "raise" THEN c ELSE
    LET o == Pop(v.ofs, c.vals) IN
    IF o.kind = "raise" THEN o ELSE
    [kind |-> "ok",
     v |-> [uncomplen |-> u.val, complen |-> c.val, ofs |-> o.val]]

\* list(struct.unpack_from(fmt, extra, i)) as Python ints.
Zip64Vals(fmt, extra, i) ==
    LET f == unpack_from(fmt, extra, i) IN
    [k \in 1..Len(f) |-> IF Len(f[k]) = 4 THEN Widen(f[k]) ELSE f[k]]

\* Lines 318-332: the scan of the extra field block.
RECURSIVE Zip64Scan(_, _, _, _)
Zip64Scan(extra, extralen, i, v) ==
    IF ~(i < extralen) THEN [kind |-> "ok", v |-> v]
    ELSE IF ~Unpackable(<<2, 2>>, extra, i) THEN Threw("struct.error")
    ELSE
    LET hdr == unpack_from(<<2, 2>>, extra, i)
        fieldid == U16(hdr[1])
        fieldsz == U16(hdr[2])
    IN  IF fieldid # 1
        THEN Zip64Scan(extra, extralen, i + 4 + fieldsz, v)
        ELSE IF fieldsz \notin DOMAIN zip64_fmt THEN Threw("KeyError")
        ELSE IF ~Unpackable(zip64_fmt[fieldsz], extra, i + 4)
             THEN Threw("struct.error")
        ELSE
        LET p == Zip64Pops(v, Zip64Vals(zip64_fmt[fieldsz], extra, i + 4))
        IN  IF p.kind = "raise" THEN p
            ELSE Zip64Scan(extra, extralen, i + 4 + fieldsz, p.v)

\* The comment is not stepped over.
AfterRecordNoComment(cur_addr, fnlen, extralen, commentlen) ==
    cur_addr + cd_hdr_size + fnlen + extralen

\* Lines 311, 313, 315: the address after one record.
AfterRecord(cur_addr, fnlen, extralen, commentlen) ==
    cur_addr + cd_hdr_size + fnlen + extralen + commentlen

\* Every method passes.
MethodSupportedAny(method) == TRUE

\* Line 343.
MethodSupported(method) == method = 8

\* Lines 308-342: one turn of the loop at cur_addr, up to the stored entry.
ReadRecord(cd_bytes, cur_addr) ==
    IF ~Unpackable(fmt_cd, cd_bytes, cur_addr) THEN Threw("struct.error")
    ELSE
    LET h == unpack_from(fmt_cd, cd_bytes, cur_addr)
        fnlen == U16(h[11])
        extralen == U16(h[12])
        commentlen == U16(h[13])
        name_at == cur_addr + cd_hdr_size
        filename == Slice(cd_bytes, name_at, name_at + fnlen)
        extra == Slice(cd_bytes, name_at + fnlen,
                       name_at + fnlen + extralen)
        z == Zip64Scan(extra, extralen, 0,
                       [uncomplen |-> Widen(h[10]), complen |-> Widen(h[9]),
                        ofs |-> Widen(h[17])])
    IN  IF \E i \in 1..Len(filename) : filename[i] > 127
        THEN Threw("UnicodeDecodeError")
        ELSE IF z.kind = "raise" THEN z
        ELSE [kind |-> "ok",
              filename |-> filename,
              info |-> [method |-> U16(h[5]), flags |-> h[4], crc |-> h[8],
                        header_offset |-> z.v.ofs,
                        file_size |-> z.v.uncomplen,
                        compress_size |-> z.v.complen],
              cur_addr |-> AfterRecord(cur_addr, fnlen, extralen,
                                       commentlen)]

\* self.infos[filename] = info
Store(infos, filename, info) ==
    [n \in DOMAIN infos \cup {filename} |->
        IF n = filename THEN info ELSE infos[n]]

WalkRest ==
    UNCHANGED <<rangeVars, retryVars, sessionVars, opsVars, dest, batch,
                renewers>>

\* Line 282: the size of the archive is known, nothing is fetched yet.
WalkInit ==
    \E a \in Archives :
        walk = [pc |-> "eocd", archive |-> a.members, comment |-> a.comment,
                tot_bytes |-> Len(ArchiveBytes(a)),
                cd_bytes |-> <<>>, cd_size |-> 0, cur_addr |-> 0,
                infos |-> <<>>, turns |-> 0, exc |-> "none",
                filename |-> <<>>, start |-> <<>>, length |-> <<>>]

\* Lines 283-305: the lookup window is fetched and searched, the record
\* found is read and the central directory is fetched.
WalkLocate ==
    /\ walk.pc = "eocd"
    /\ LET bytes == ArchiveBytes([members |-> walk.archive,
                                  comment |-> walk.comment])
           buf == Fetched(bytes, walk.tot_bytes - eocd_buf_bytes,
                          eocd_buf_bytes)
           cd_loc_in_buf == Find(buf, eocd_signature)
       IN  walk' =
            IF cd_loc_in_buf < 0
            THEN [walk EXCEPT !.pc = "raised",
                              !.exc = "RemoteZipCreationException"]
            ELSE IF ~Unpackable(fmt_eocd, buf, cd_loc_in_buf)
            THEN [walk EXCEPT !.pc = "raised", !.exc = "struct.error"]
            ELSE
            LET e == unpack_from(fmt_eocd, buf, cd_loc_in_buf)
                cd_size == U32(e[6])
                cd_offset == U32(e[7])
            IN  [walk EXCEPT !.pc = "loop",
                             !.cd_size = cd_size,
                             !.cd_bytes = Fetched(bytes, cd_offset, cd_size)]
    /\ WalkRest

\* Lines 307-344: one turn of the loop.
WalkRecord ==
    /\ walk.pc = "loop"
    /\ walk.cur_addr < walk.cd_size
    /\ LET r == ReadRecord(walk.cd_bytes, walk.cur_addr) IN
        walk' =
            IF r.kind = "raise"
            THEN [walk EXCEPT !.pc = "raised", !.exc = r.exc]
            ELSE IF ~MethodSupported(r.info.method)
            THEN [walk EXCEPT !.pc = "raised", !.exc = "AssertionError",
                              !.infos = Store(@, r.filename, r.info),
                              !.turns = @ + 1]
            ELSE [walk EXCEPT !.cur_addr = r.cur_addr,
                              !.infos = Store(@, r.filename, r.info),
                              !.turns = @ + 1]
    /\ WalkRest

\* Line 307 false: __init__ returns, the RemoteZip exists.
WalkEnd ==
    /\ walk.pc = "loop"
    /\ ~(walk.cur_addr < walk.cd_size)
    /\ walk' = [walk EXCEPT !.pc = "built"]
    /\ WalkRest

\* A Python int kept as its little-endian bytes, plus a small number.
RECURSIVE Plus(_, _)
Plus(v, n) ==
    IF v = <<>> THEN <<>>
    ELSE <<(Head(v) + n) % 256>> \o Plus(Tail(v), (Head(v) + n) \div 256)

\* The body the server sends for "Range: bytes=ofs-" when ofs is the
\* offset of the local file header of the member named filename: its local
\* entry, then the rest of the archive.
BodyAtHeaderOf(members, filename) ==
    LocalEntry(CHOOSE m \in {members[k] : k \in 1..Len(members)} :
                    m.name = filename)

\* RemoteZip.download_single_file, lines 438-470, of a member of the index
\* whose file is not there yet: the range asked for the payload.
WalkExtract ==
    /\ walk.pc = "built"
    /\ \E filename \in DOMAIN walk.infos :
        LET info == walk.infos[filename]
            sizeof_localhdr == calcsize(fmt_localhdr)
            resp == Fetched(BodyAtHeaderOf(walk.archive, filename), 0,
                            sizeof_localhdr)
            h == unpack_from(fmt_localhdr, resp, 0)
            size == Widen(h[8])
            fnlen == U16(h[10])
            extralen == U16(h[11])
        IN  walk' = [walk EXCEPT
                        !.pc = "payload",
                        !.filename = filename,
                        !.start = Plus(info.header_offset,
                                       sizeof_localhdr + fnlen + extralen),
                        !.length = size]
    /\ WalkRest

InitWalk ==
    /\ WalkInit
    /\ dest = DestIdle /\ MoreIdle
    /\ gr = GrIdle /\ rw = RwIdle /\ SessionIdle /\ OpsIdle
NextWalk == WalkLocate \/ WalkRecord \/ WalkEnd \/ WalkExtract
SpecWalk == InitWalk /\ [][NextWalk]_vars

(***************************************************************************)
(* RemoteZip.__init__ up to the search of the lookup window (download.py   *)
(* 281-290), on the sizes alone: an archive of walk.size bytes, numbered   *)
(* from 1, that ends with its End-Of-Central-Directory record, and a       *)
(* probing response with or without a content-length header.               *)
(***************************************************************************)
MaxBeyond == 2      \* archives of up to eocd_buf_bytes + MaxBeyond bytes

\* What a server may do with "Range: bytes=start-" when start is negative,
\* which is no byte range: send the whole archive, send its last -start
\* bytes, or refuse.
OffRangeAnswers == {"whole", "suffix", "refused"}

WindowInit ==
    \E size \in calcsize(fmt_eocd)..(eocd_buf_bytes + MaxBeyond),
       announced \in BOOLEAN :
        walk = [pc |-> "probe", size |-> size, announced |-> announced,
                tot_bytes |-> 0, start |-> 0, buf |-> <<>>, exc |-> "none"]

\* Lines 281-282: int(response.headers.get('content-length', 0)).
WindowProbe ==
    /\ walk.pc = "probe"
    /\ walk' = [walk EXCEPT !.pc = "fetch",
                            !.tot_bytes = IF walk.announced THEN walk.size
                                          ELSE 0]
    /\ WalkRest

\* Lines 284-287 with 373-375: the window is asked from
\* tot_bytes - eocd_buf_bytes on and its first eocd_buf_bytes bytes kept.
WindowFetch ==
    /\ walk.pc = "fetch"
    /\ LET start == walk.tot_bytes - eocd_buf_bytes IN
       \E answer \in OffRangeAnswers :
        LET body == IF start >= 0 THEN RangeBody(walk.size, start)
                    ELSE IF answer = "whole" THEN RangeBody(walk.size, 0)
                    ELSE RangeBody(walk.size, Max(walk.size + start, 0))
        IN  walk' =
             IF start < 0 /\ answer = "refused"
             THEN [walk EXCEPT !.pc = "raised", !.start = start,
                               !.exc = "HTTPError"]
             ELSE [walk EXCEPT !.pc = "search", !.start = start,
                               !.buf = Fetched(body, 0, eocd_buf_bytes)]
    /\ WalkRest

\* Lines 288-290: the signature is where the record starts.
WindowSearch ==
    /\ walk.pc = "search"
    /\ walk' =
        IF \E i \in 1..Len(walk.buf) :
                walk.buf[i] = walk.size - calcsize(fmt_eocd) + 1
        THEN [walk EXCEPT !.pc = "found"]
        ELSE [walk EXCEPT !.pc = "raised",
                          !.exc = "RemoteZipCreationException"]
    /\ WalkRest

InitWindow ==
    /\ WindowInit
    /\ dest = DestIdle /\ MoreIdle
    /\ gr = GrIdle /\ rw = RwIdle /\ SessionIdle /\ OpsIdle
NextWindow == WindowProbe \/ WindowFetch \/ WindowSearch
SpecWindow == InitWindow /\ [][NextWindow]_vars

(***************************************************************************)
(* The destination of an extracted member (download.py 459, 671-689).      *)
(*                                                                         *)
(* A path is a sequence of characters.  os.path is posixpath: join,        *)
(* dirname and basename work on the characters.  The file system resolves  *)
(* a path to its components (empty ones dropped) under the root or under   *)
(* the working directory.  The ranged fetches of the extraction succeed.   *)
(***************************************************************************)
MaxPath == 3    \* member names of 1..MaxPath characters

PathChars == {"/", "a", "b"}
MemberPaths == WordsUpTo(PathChars, MaxPath) \ {<<>>}
DownloadDirs == {<<>>, <<"d">>, <<"d", "/">>, <<"/", "d">>}

\* p.rfind('/') + 1
RECURSIVE AfterLastSlash(_)
AfterLastSlash(p) ==
    IF p = <<>> THEN 0
    ELSE IF p[Len(p)] = "/" THEN Len(p)
    ELSE AfterLastSlash(SubSeq(p, 1, Len(p) - 1))

\* p.rstrip('/')
RECURSIVE RStripSlash(_)
RStripSlash(p) ==
    IF p # <<>> /\ p[Len(p)] = "/"
    THEN RStripSlash(SubSeq(p, 1, Len(p) - 1)) ELSE p

\* os.path.basename
Basename(p) == SubSeq(p, AfterLastSlash(p) + 1, Len(p))

\* Every member goes to the directory given.
DirnameNone(p) == <<>>

\* os.path.dirname
Dirname(p) ==
    LET head == SubSeq(p, 1, AfterLastSlash(p)) IN
    IF head # <<>> /\ RStripSlash(head) # <<>> THEN RStripSlash(head)
    ELSE head

\* os.path.join(a, b)
Join(a, b) ==
    IF b # <<>> /\ b[1] = "/" THEN b
    ELSE IF a = <<>> \/ a[Len(a)] = "/" THEN a \o b
    ELSE a \o <<"/">> \o b

\* The components of a path, as the file system walks them.
RECURSIVE Components(_)
Components(p) ==
    IF p = <<>> THEN <<>>
    ELSE IF p[1] = "/" THEN Components(Tail(p))
    ELSE LET n == CHOOSE k \in 1..Len(p) :
                    /\ \A i \in 1..k : p[i] # "/"
                    /\ k = Len(p) \/ p[k + 1] = "/"
         IN  <<SubSeq(p, 1, n)>> \o Components(SubSeq(p, n + 1, Len(p)))
Resolve(p) ==
    [abs |-> p # <<>> /\ p[1] = "/", comps |-> Components(p)]
Ancestors(r) ==
    {[abs |-> r.abs, comps |-> SubSeq(r.comps, 1, k)] :
        k \in 0..(Len(r.comps) - 1)}
RootDirs == {[abs |-> TRUE, comps |-> <<>>], [abs |-> FALSE, comps |-> <<>>]}

\* Path(p).mkdir(parents=True, exist_ok=True)
Mkdir(tree, p) ==
    LET r == Resolve(p) IN
    IF (Ancestors(r) \cup {r}) \cap tree.files # {}
    THEN [kind |-> "raise", exc |-> "FileExistsError", tree |-> tree]
    ELSE [kind |-> "ok", exc |-> "none",
          tree |-> [tree EXCEPT !.dirs = @ \cup Ancestors(r) \cup {r}]]

\* open(p, 'wb') and the writes of _get_range, the file closed.
OpenWb(tree, p) ==
    LET r == Resolve(p) IN
    IF p = <<>> \/ ~(Ancestors(r) \subseteq tree.dirs)
    THEN [kind |-> "raise", exc |-> "FileNotFoundError", tree |-> tree]
    ELSE IF r \in tree.dirs \/ p[Len(p)] = "/"
    THEN [kind |-> "raise", exc |-> "IsADirectoryError", tree |-> tree]
    ELSE [kind |-> "ok", exc |-> "none",
          tree |-> [tree EXCEPT !.files = @ \cup {r}]]

PathRest ==
    UNCHANGED <<rangeVars, retryVars, sessionVars, opsVars, walk, batch,
                renewers>>

\* A call of one of the two entry points with a member name and a
\* directory, which exists already or not; no file is there yet.
PathInit ==
    \E entry \in {"Feature", "RemoteZip"}, filename \in MemberPaths,
       dir \in DownloadDirs, made \in BOOLEAN :
        dest = [pc |-> IF entry = "Feature" THEN "mkdir" ELSE "extract",
                entry |-> entry, filename |-> filename, dir |-> dir,
                output_dir |-> IF entry = "Feature" THEN <<>> ELSE dir,
                output_file |-> <<>>,
                tree |-> [dirs |-> RootDirs \cup
                            (IF made
                             THEN Ancestors(Resolve(dir)) \cup {Resolve(dir)}
                             ELSE {}),
                          files |-> {}],
                exc |-> "none"]

\* Feature.download_single_file, lines 671-676.
PathMkdir ==
    /\ dest.pc = "mkdir"
    /\ LET output_dir == Join(dest.dir, Dirname(dest.filename))
           m == Mkdir(dest.tree, output_dir)
       IN  dest' = [dest EXCEPT
                        !.pc = IF m.kind = "ok" THEN "extract" ELSE "raised",
                        !.output_dir = output_dir,
                        !.tree = m.tree,
                        !.exc = m.exc]
    /\ PathRest

\* RemoteZip.download_single_file, lines 459-470.
PathExtract ==
    /\ dest.pc = "extract"
    /\ LET output_file == Join(dest.output_dir, Basename(dest.filename))
           o == OpenWb(dest.tree, output_file)
       IN  dest' = [dest EXCEPT
                        !.pc = IF o.kind = "ok" THEN "done" ELSE "raised",
                        !.output_file = output_file,
                        !.tree = o.tree,
                        !.exc = o.exc]
    /\ PathRest

InitPath ==
    /\ PathInit
    /\ walk = WalkIdle /\ MoreIdle
    /\ gr = GrIdle /\ rw = RwIdle /\ SessionIdle /\ OpsIdle
NextPath == PathMkdir \/ PathExtract
SpecPath == InitPath /\ [][NextPath]_vars

(***************************************************************************)
(* The two batch entry points: Feature.download_files and the pattern      *)
(* download of the command line.  Names and patterns are strings of        *)
(* characters; a round is one call of Feature.download_single_file.        *)
(***************************************************************************)
MaxFiles == 2       \* members in the index
MaxPatterns == 2    \* patterns given

IndexNames == {<<"a">>, <<"a", "b">>, <<"b", "a">>}
Patterns == {<<>>, <<"a">>, <<"b">>, <<"a", "b">>}

ListsUpTo(S, n) == UNION {[1..k -> S] : k \in 0..n}
Distinct(list) ==
    \A i, j \in 1..Len(list) : list[i] = list[j] => i = j

\* match in filename
In(match, filename) ==
    \E at \in 0..Len(filename) : Occurs(filename, match, at)

\* download.py line 707: any(match in filename for match in matching)
AnyMatch(filename, matching) ==
    \E k \in 1..Len(matching) : In(matching[k], filename)

\* cli.py lines 182-183 for one filename: one item per pattern it contains.
RECURSIVE PerPattern(_, _)
PerPattern(filename, patterns) ==
    IF patterns = <<>> THEN <<>>
    ELSE (IF In(Head(patterns), filename) THEN <<filename>> ELSE <<>>)
         \o PerPattern(filename, Tail(patterns))

\* cli.py lines 179-184.
RECURSIVE to_download(_, _)
to_download(files, patterns) ==
    IF files = <<>> THEN <<>>
    ELSE PerPattern(Head(files), patterns)
         \o to_download(Tail(files), patterns)

BatchRest ==
    UNCHANGED <<rangeVars, retryVars, sessionVars, opsVars, walk, dest,
                renewers>>

\* The index is built, its names are distinct (keys of a dict) and in the
\* order of the central directory; the valid files of an earlier run are
\* in the download directory, or nothing is.
BatchInit ==
    \E entry \in {"download_files", "cli"},
       files \in {l \in ListsUpTo(IndexNames, MaxFiles) : Distinct(l)},
       matching \in ListsUpTo(Patterns, MaxPatterns),
       kept \in BOOLEAN :
        batch = [pc |-> IF entry = "cli" THEN "collect" ELSE "loop",
                 entry |-> entry, files |-> files, matching |-> matching,
                 list |-> files, i |-> 1,
                 valid |-> IF kept THEN {files[k] : k \in 1..Len(files)}
                           ELSE {},
                 log |-> <<>>]

Logged(ev) == Append(batch.log, [filename |-> batch.list[batch.i], ev |-> ev])

\* cli.py lines 179-184.
BatchCollect ==
    /\ batch.pc = "collect"
    /\ batch' = [batch EXCEPT !.pc = "loop",
                              !.list = to_download(batch.files, batch.matching)]
    /\ BatchRest

\* download.py lines 706-707, cli.py line 185: the next item of the loop.
BatchLoop ==
    /\ batch.pc = "loop"
    /\ batch' =
        IF batch.i > Len(batch.list) THEN [batch EXCEPT !.pc = "done"]
        ELSE IF \/ batch.entry = "cli"
                \/ AnyMatch(batch.list[batch.i], batch.matching)
        THEN [batch EXCEPT !.pc = "header", !.log = Logged("call")]
        ELSE [batch EXCEPT !.i = @ + 1]
    /\ BatchRest

\* download.py lines 446-465 within the call of line 708 or cli.py line 187:
\* the local header is fetched, or every attempt failed; a destination that
\* is there and valid ends the round.
BatchHeader ==
    /\ batch.pc = "header"
    /\ \E ok \in BOOLEAN :
        batch' =
            IF ~ok THEN [batch EXCEPT !.pc = "raised"]
            ELSE IF batch.list[batch.i] \in batch.valid
            THEN [batch EXCEPT !.pc = "loop", !.i = @ + 1,
                               !.log = Logged("header")]
            ELSE [batch EXCEPT !.pc = "payload", !.log = Logged("header")]
    /\ BatchRest

\* download.py lines 469-470.
BatchPayload ==
    /\ batch.pc = "payload"
    /\ batch' = [batch EXCEPT !.pc = "verify", !.log = Logged("payload")]
    /\ BatchRest

\* download.py lines 472-479: the round ends with a valid file, or every
\* attempt of the call failed and the exception leaves the loop.
BatchVerify ==
    /\ batch.pc = "verify"
    /\ \E ok \in BOOLEAN :
        batch' =
            IF ~ok THEN [batch EXCEPT !.pc = "raised"]
            ELSE [batch EXCEPT !.pc = "loop", !.i = @ + 1,
                               !.valid = @ \cup {batch.list[batch.i]},
                               !.log = Logged("verify")]
    /\ BatchRest

InitBatch ==
    /\ BatchInit
    /\ walk = WalkIdle /\ dest = DestIdle /\ renewers = RenewersIdle
    /\ gr = GrIdle /\ rw = RwIdle /\ SessionIdle /\ OpsIdle
NextBatch ==
    BatchCollect \/ BatchLoop \/ BatchHeader \/ BatchPayload \/ BatchVerify
SpecBatch == InitBatch /\ [][NextBatch]_vars

(***************************************************************************)
(* renew_authorization_headers (download.py 188-217) called by several     *)
(* threads on one RequestsManager.  A call is two steps: the POST, during  *)
(* which other threads run, and the rest of the function on the response   *)
(* it holds.  The session takes no lock; renewers.serialized tells whether *)
(* the callers hold one of their own around the whole call.                *)
(***************************************************************************)
MaxThreads == 2

Threads == 1..Len(renewers.threads)
Inside(t) == renewers.threads[t].pc = "response"

RenewRest ==
    UNCHANGED <<rangeVars, retryVars, opsVars, walk, dest, batch, session,
                lastGet>>

\* A session after its construction: the token of the first authentication
\* is in the headers; every thread is about to call.
RenewInit ==
    /\ session = "live"
    /\ authorization_headers = NextToken(0)
    /\ server \in [issued : {NextToken(0)}, expired : BOOLEAN,
                   honest : BOOLEAN]
    /\ lastAuth = AuthRecord([status |-> 200, uuid |-> TRUE,
                              token |-> NextToken(0)], "__init__")
    /\ lastGet = NoGet
    /\ renewers \in [serialized : BOOLEAN,
                     posts : {0},
                     threads : UNION {[1..n -> {[pc |-> "call"]}]
                                        : n \in 1..MaxThreads}]

\* Lines 194-199: the POST and its response.
RenewPost ==
    /\ \E t \in Threads :
        /\ renewers.threads[t].pc = "call"
        /\ renewers.serialized => \A u \in Threads : ~Inside(u)
        /\ \E r \in AuthResponses(server) :
            /\ server' = ServerAfterAuth(server, r)
            /\ lastAuth' = AuthRecord(r, "renew")
            /\ renewers' = [renewers EXCEPT
                                !.posts = @ + 1,
                                !.threads[t] = [pc |-> "response", r |-> r]]
    /\ UNCHANGED authorization_headers
    /\ RenewRest

\* Lines 201-217: the checks of the response and the assignment.
RenewAssign ==
    /\ \E t \in Threads :
        /\ Inside(t)
        /\ LET r == renewers.threads[t].r IN
            /\ authorization_headers' = RenewHeaders(authorization_headers, r)
            /\ renewers' = [renewers EXCEPT !.threads[t] =
                                [pc |-> IF RenewOutcome(r) = "none"
                                        THEN "done" ELSE "raised",
                                 r |-> r]]
    /\ UNCHANGED <<server, lastAuth>>
    /\ RenewRest

InitRenew ==
    /\ RenewInit
    /\ walk = WalkIdle /\ dest = DestIdle /\ batch = BatchIdle
    /\ gr = GrIdle /\ rw = RwIdle /\ OpsIdle
NextRenew == RenewPost \/ RenewAssign
SpecRenew == InitRenew /\ [][NextRenew]_vars

RwActive == rw.pc # "idle"
RwAllRetried(n) ==
    /\ Len(rw.outcomes) = n
    /\ \A i \in 1..n : rw.outcomes[i].kind = "retried"

\* C1: the function is invoked at most `times` times; the wrapper stops at
\* the first invocation that returns and returns its value; when all `times`
\* invocations raise a caught exception, the exception of the last one is
\* raised to the caller.
C1_BoundedAttempts ==
    RwActive =>
        /\ Len(rw.outcomes) <= rw.times
        /\ \A i \in 1..Len(rw.outcomes) :
            rw.outcomes[i].kind = "return" =>
                /\ i = Len(rw.outcomes)
                /\ rw.pc = "returned"
                /\ rw.result = rw.outcomes[i]
        /\ (rw.times > 0 /\ RwAllRetried(rw.times)) =>
                /\ rw.pc = "raised"
                /\ rw.result = rw.outcomes[rw.times]

\* Five caught failures in a row with the default `times`, the fifth raised.
C1_Witness ==
    /\ RwActive /\ rw.times = MAX_NB_RETRIES /\ RwAllRetried(MAX_NB_RETRIES)
    /\ rw.pc = "raised" /\ rw.result.id = MAX_NB_RETRIES

\* C2: the first invocation receives the caller's renew_token as given, every
\* later one receives renew_token = True.
C2_RenewFlagAfterFirst ==
    RwActive =>
        \A i \in 1..Len(rw.calls) :
            rw.calls[i] = IF i = 1 THEN rw.kwargs ELSE "true"

\* A caller passed renew_token=False and a third invocation was made.
C2_Witness ==
    /\ RwActive /\ rw.kwargs = "false" /\ Len(rw.calls) >= 3
    /\ rw.calls[1] = "false" /\ rw.calls[3] = "true"

\* The server sends more than `length` bytes from the offset.
GrOversized == gr.pc # "idle" /\ Len(GrBody) > gr.length

\* C9: when the body holds more than `length` bytes, a finished ranged fetch
\* has kept exactly the first `length` bytes of the body, in order: the
\* memory sink returns them, the file sink has fed them to the decompressor.
C9_ExactlyLengthBytes ==
    (GrOversized /\ gr.pc = "done") =>
        /\ gr.sink = "memory" => gr.content = SubSeq(GrBody, 1, gr.length)
        /\ gr.sink = "file" => gr.fed = SubSeq(GrBody, 1, gr.length)

\* A fetch into a file that ended by cutting a later block in the middle.
C9_Witness ==
    /\ GrOversized /\ gr.pc = "done" /\ gr.sink = "file"
    /\ gr.length > 0 /\ gr.reads >= 2 /\ gr.n_bytes > gr.length
    /\ gr.start > 0 /\ Len(gr.fed) = gr.length

\* C10: against a server that sends more than `length` bytes, no block is
\* taken from the response once the received bytes have reached `length`.
C10_NoReadOnceLengthReached ==
    GrOversized => gr.late_reads = 0

GetEnded == lastGet # NoGet
GetLog == lastGet.log
GetStatuses == [i \in 1..Len(GetLog) |-> GetLog[i].status]

\* The call ended on something other than an answer of the download server:
\* a request without answer, or an authentication that failed.
GetEndedOffProtocol ==
    lastGet.kind = "raise" /\ lastGet.exc # "HTTPError"

\* C6: a get call returns the first response whose status is 200 or 206,
\* among at most MAX_NB_RETRIES requests, or raises the HTTP error of the
\* last response after MAX_NB_RETRIES responses outside (200, 206); it never
\* returns without a response.
C6_ReturnsResponseOrRaises ==
    (GetEnded /\ ~GetEndedOffProtocol) =>
        /\ Len(GetLog) >= 1 /\ Len(GetLog) <= MAX_NB_RETRIES
        /\ \A i \in 1..(Len(GetLog) - 1) : ~IsAccepted(GetStatuses[i])
        /\ \/ /\ lastGet.kind = "return"
              /\ IsAccepted(lastGet.status)
              /\ lastGet.status = GetStatuses[Len(GetLog)]
           \/ /\ lastGet.kind = "raise"
              /\ lastGet.exc = "HTTPError"
              /\ Len(GetLog) = MAX_NB_RETRIES
              /\ ~IsAccepted(lastGet.status)
              /\ lastGet.status = GetStatuses[MAX_NB_RETRIES]

\* An authentication exchange that got an answer ended as its status and
\* body say.
AuthAsAnswered(a) ==
    a.status # 0 =>
        /\ a.exc = "ConnectionError" <=> a.status # 200
        /\ a.exc = "InvalidToken" <=> (a.status = 200 /\ ~a.uuid)
        /\ a.exc = "none" <=> (a.status = 200 /\ a.uuid)

\* C7: inside one get call, a Forbidden response that is not the last one is
\* followed by a renewal, and the next request carries the token that
\* renewal installed; no other response is followed by a renewal; a call
\* begun with a token the honest server refuses returns a 200 or 206 on
\* its second request, unless the renewal itself fails.
C7_RenewalBeforeNextRequest ==
    GetEnded =>
        /\ \A i \in 1..Len(GetLog) :
            /\ (GetLog[i].status = 403 /\ i < MAX_NB_RETRIES) =>
                    GetLog[i].auth # NoAuth
            /\ (GetLog[i].status = 403 /\ i < Len(GetLog)) =>
                    /\ GetLog[i].auth.exc = "none"
                    /\ GetLog[i].renewed # 0
                    /\ GetLog[i + 1].sent = GetLog[i].renewed
            /\ GetLog[i].status # 403 =>
                    (GetLog[i].auth = NoAuth /\ GetLog[i].renewed = 0)
        /\ (/\ lastGet.srv.honest
            /\ ~TokenAccepted(lastGet.hdr, lastGet.srv)
            /\ ~GetEndedOffProtocol) =>
                /\ lastGet.kind = "return"
                /\ Len(GetLog) = 2
                /\ IsAccepted(lastGet.status)

\* A call begun with an expired token: Forbidden, a renewal, then a request
\* with the new token, which the honest server accepts.
C7_Witness ==
    /\ GetEnded /\ lastGet.srv.honest /\ lastGet.srv.expired
    /\ lastGet.kind = "return" /\ Len(GetLog) = 2
    /\ GetLog[1].status = 403 /\ GetLog[1].sent = lastGet.hdr
    /\ GetLog[2].sent = GetLog[1].renewed
    /\ GetLog[2].sent # lastGet.hdr

\* C8: an authentication fails with ConnectionError when the endpoint
\* answers another status than 200, with InvalidToken when it answers 200
\* with a body that is no UUID, and succeeds only on a 200 with a UUID body,
\* at construction and at every renewal; a session exists only after a
\* successful first authentication.
C8_AuthenticationOutcome ==
    /\ AuthAsAnswered(lastAuth)
    /\ GetEnded => \A i \in 1..Len(GetLog) : AuthAsAnswered(GetLog[i].auth)
    /\ lastAuth.by = "__init__" =>
            (session = "live" <=> (lastAuth.status = 200 /\ lastAuth.uuid))
    /\ session = "live" => (authorization_headers # 0 /\ server.issued # 0)
    /\ session = "none" => authorization_headers = 0

\* A constructor refused for a bad body, and a renewal refused for a bad
\* status inside a live session.
C8_Witness ==
    \/ /\ session = "none" /\ lastAuth.by = "__init__"
       /\ lastAuth.exc = "InvalidToken"
    \/ /\ session = "live" /\ lastAuth.by = "renew"
       /\ lastAuth.exc = "ConnectionError" /\ lastAuth.uuid

(***************************************************************************)
(* Claims about the retry-wrapped operations of Feature.                   *)
(***************************************************************************)

\* A wrapper call has just ended by raising, after MAX_NB_RETRIES attempts
\* that all failed with an exception of its err_cls.
Exhausted ==
    /\ last # NoLast
    /\ last.kind = "raise"
    /\ last.attempts = MAX_NB_RETRIES
    /\ last.exc.kind \in ErrCls(last.op)

\* The renewals the flag asks for in a call that uses all its attempts.
FlaggedRenewals(kwargs) ==
    MAX_NB_RETRIES - 1 + (IF kwargs = "true" THEN 1 ELSE 0)

\* C3 as stated: in every wrapped operation, when MAX_NB_RETRIES attempts
\* in a row fail, the renewal of the token was invoked on the flag exactly
\* MAX_NB_RETRIES - 1 times during the call.
C3_RenewedTimesMinusOne ==
    Exhausted => last.own_renews = MAX_NB_RETRIES - 1

\* C3, amended: the wrapped function receives renew_token=True in every
\* attempt but the first, where it receives what the caller passed; and
\* when MAX_NB_RETRIES attempts in a row fail, the renewals made on the
\* flag are MAX_NB_RETRIES - 1, plus one when the caller passed
\* renew_token=True (as download_archive does by default), for
\* _download_file and _get_remote_zip, and at most that many for
\* Feature.download_single_file, whose attempts renew only once the index
\* is built.
C3_RenewalsWhenExhausted ==
    /\ \A i \in 1..(Len(stack) - 1) :
            stack[i].fn = "wrapper" =>
                stack[i + 1].renew_token =
                    (stack[i].retry_nb > 0 \/ stack[i].kwargs = "true")
    /\ Exhausted =>
            IF last.op = "download_single_file"
            THEN last.own_renews <= FlaggedRenewals(last.kwargs)
            ELSE last.own_renews = FlaggedRenewals(last.kwargs)

C3_Witness ==
    /\ Exhausted
    /\ last.op = "_download_file"
    /\ last.kwargs = "true"
    /\ last.own_renews = MAX_NB_RETRIES

Fatal == {"KeyError", "InvalidToken", "AssertionError"}

\* C4: a KeyError (member not in the index), an InvalidToken or an
\* AssertionError (member not deflated) that reaches a retry wrapper leaves
\* it at once: the wrapper ends with the same exception, without a sleep,
\* another attempt or a renewal after the attempt that raised it.
C4_FatalNotRetried ==
    [][(/\ stack # <<>>
        /\ Top.fn = "wrapper"
        /\ Top.pc = "wait"
        /\ sig.kind = "raise"
        /\ sig.exc.kind \in Fatal)
       => /\ Len(stack') < Len(stack)
          /\ sig' = sig
          /\ last' = Summary(Top, sig)
          /\ authorization_headers' = authorization_headers]_vars

C4_Witness ==
    /\ last # NoLast
    /\ last.op = "download_single_file"
    /\ last.kind = "raise"
    /\ last.exc.kind \in Fatal
    /\ last.attempts > 1

\* A call of _get_remote_zip has just ended with the exception of an
\* End-Of-Central-Directory signature not found.
CreationFailed ==
    /\ last # NoLast
    /\ last.op = "_get_remote_zip"
    /\ last.kind = "raise"
    /\ last.exc = Exc("RemoteZipCreationException", "RemoteZip.__init__")

\* C5 as stated: when the signature is not found, the archive was probed
\* and the window fetched exactly once before the error leaves
\* _get_remote_zip.
C5_ProbedOnce ==
    CreationFailed => last.probes = 1 /\ last.windows = 1

\* C5, amended: a signature not found raises RemoteZipCreationException,
\* which _get_remote_zip retries; when the error leaves it, index
\* construction was attempted MAX_NB_RETRIES times, each one probing the
\* archive and fetching the window once.
C5_CreationRetried ==
    CreationFailed =>
        /\ last.attempts = MAX_NB_RETRIES
        /\ last.probes = MAX_NB_RETRIES
        /\ last.windows = MAX_NB_RETRIES
        /\ last.own_renews = MAX_NB_RETRIES - 1

C5_Witness ==
    /\ CreationFailed
    /\ last.probes = MAX_NB_RETRIES
    /\ stack # <<>>

(***************************************************************************)
(* Claims about the extraction of one member.                              *)
(***************************************************************************)

\* RemoteZip.download_single_file is about to compare the CRC-32 of the
\* local file with the expected one, and they are equal.
SkipPath ==
    /\ Running("RemoteZip.download_single_file", "check")
    /\ CrcMatches(fs.member, Top.crc)

\* C11 as stated: re-extracting a member whose local file has the expected
\* CRC-32 takes the skip path without any network read since the call
\* started.
C11_SkipWithoutNetworkRead ==
    SkipPath => Top.fetches = 0

\* C11, amended: a call that takes the skip path has made exactly one ranged
\* fetch, the one of the local file header that carries the expected
\* CRC-32, and then returns at once: no payload fetch, no renewal, no other
\* request and no write follow.
C11_SkipAfterHeaderFetch ==
    [][SkipPath =>
        /\ Top.fetches = 1
        /\ stack' = Below
        /\ sig' = Returned("None")
        /\ UNCHANGED <<fs, authorization_headers, server>>]_vars

C11_Witness ==
    /\ SkipPath
    /\ Top.fetches = 1
    /\ Top.crc = "same"
    /\ feat.remote_zip

\* C12: a call that starts with a checksum-valid file never rewrites it.  A
\* call of RemoteZip.download_single_file that starts with a file that has
\* the CRC-32 of the member never goes past the comparison of the CRC-32 and
\* leaves the file as it is; a call of download_archive that starts with an
\* archive that has the MD5 of the catalog never reaches _download_file,
\* retries included.
C12_ValidFileNotRewritten ==
    \A i \in 1..Len(stack) :
        /\ (/\ stack[i].fn = "RemoteZip.download_single_file"
            /\ stack[i].started.member = "good") =>
                /\ stack[i].pc \in {"start", "renew", "header", "check"}
                /\ fs.member = "good"
        /\ (/\ stack[i].fn = "download_archive"
            /\ stack[i].checksum = "given"
            /\ stack[i].started.archive = "good") =>
                /\ stack[i].pc = "start"
                /\ i = Len(stack)
                /\ fs.archive = "good"

\* C13: whenever a call of RemoteZip.download_single_file returns, the
\* destination file has the CRC-32 that the central directory records for
\* the member; and when the file just written has another CRC-32, the call
\* raises RemoteZipDownloadException instead of returning.
C13_ReturnedFileHasDirectoryCrc ==
    [][/\ (/\ Running("RemoteZip.download_single_file", "check")
              \/ Running("RemoteZip.download_single_file", "verify")
           /\ stack' = Below
           /\ sig'.kind = "return") => fs'.member = "good"
       /\ (/\ Running("RemoteZip.download_single_file", "verify")
           /\ fs.member # "good") =>
                /\ sig'.kind = "raise"
                /\ sig'.exc.kind = "RemoteZipDownloadException"]_vars

\* C14: asking RemoteZip.download_single_file for a name that is not in the
\* index raises KeyError with a message that lists the names of the index,
\* as the first thing the call does: no renewal, no fetch and no write has
\* been made by the call or is made by that step, whatever renew_token; and
\* the retry wrapper the KeyError leaves has counted no renewal on the flag.
C14_NotFoundBeforeAnyEffect ==
    [][/\ (/\ Running("RemoteZip.download_single_file", "start")
           /\ Top.filename \notin Infos) =>
                /\ sig' = [Raised(Exc("KeyError",
                                      "RemoteZip.download_single_file"))
                           EXCEPT !.value = [filename |-> Top.filename,
                                             available |-> Infos]]
                /\ Top.fetches = 0
                /\ fs = Top.started
                /\ UNCHANGED <<authorization_headers, server, fs>>
       /\ (sig'.kind = "raise" /\ sig'.exc.kind = "KeyError") =>
                \/ sig' = sig
                \/ /\ Running("RemoteZip.download_single_file", "start")
                   /\ Top.filename \notin Infos
       /\ (/\ last' # NoLast
           /\ last'.kind = "raise"
           /\ last'.exc.kind = "KeyError") => last'.own_renews = 0]_vars

C14_Witness ==
    /\ last # NoLast
    /\ last.op = "download_single_file"
    /\ last.kwargs = "true"
    /\ last.kind = "raise"
    /\ last.exc.kind = "KeyError"
    /\ sig.value = [filename |-> "missing", available |-> Infos]

(***************************************************************************)
(* Claims about the index kept by a Feature.                               *)
(***************************************************************************)

Constructing == \E i \in 1..Len(stack) : stack[i].fn = "RemoteZip.__init__"

\* C15: the index of a Feature is constructed only when a call needs it and
\* none is kept; it is kept only when its construction returned, with the
\* members of the archive; once kept it is never replaced or changed and
\* no RemoteZip is constructed again, a call that needs it getting the kept
\* one without any request; a construction that fails leaves none kept.
C15_IndexBuiltOnceAndReused ==
    [][/\ ~feat.remote_zip => feat.infos = {}
       /\ Constructing => ~feat.remote_zip
       /\ feat' # feat =>
            /\ ~feat.remote_zip
            /\ Running("_get_remote_zip", "built")
            /\ sig = Returned("RemoteZip")
            /\ feat' = [remote_zip |-> TRUE, infos |-> Infos]
       /\ (Running("_get_remote_zip", "zip") /\ feat.remote_zip) =>
            /\ sig' = Returned("RemoteZip")
            /\ stack' = Below
            /\ UNCHANGED <<authorization_headers, server>>
       /\ (Constructing /\ sig'.kind = "raise") => ~feat'.remote_zip]_vars

C15_Witness ==
    /\ feat.remote_zip
    /\ Running("list_files_in_archive", "zip")
    /\ sig = Returned("RemoteZip")
    /\ last # NoLast
    /\ last.probes = 0

(***************************************************************************)
(* Claims about the walk of the central directory.                         *)
(***************************************************************************)

\* The End-Of-Central-Directory record lies in the lookup window.
EocdInWindow == calcsize(fmt_eocd) + Len(walk.comment) <= eocd_buf_bytes
TrueNames(a) == {a[k].name : k \in 1..Len(a)}
AllDeflate(a) == \A k \in 1..Len(a) : a[k].method = 8
\* The members whose records the loop has gone through.
WalkRead == SubSeq(walk.archive, 1, walk.turns)

C17_Zip64FieldsResolved ==
    \A k \in 1..walk.turns :
        LET m == walk.archive[k] IN
        /\ m.name \in DOMAIN walk.infos
        /\ walk.infos[m.name].file_size = m.file_size
        /\ walk.infos[m.name].compress_size = m.compress_size
        /\ walk.infos[m.name].header_offset = m.header_offset

C17_Witness ==
    /\ walk.pc = "built"
    /\ \E k \in 1..walk.turns :
        /\ InZip64(walk.archive[k].file_size)
        /\ ~InZip64(walk.archive[k].compress_size)
        /\ InZip64(walk.archive[k].header_offset)
        /\ walk.archive[k].other = "before"
        /\ walk.infos[walk.archive[k].name].header_offset = Large(3)
        /\ walk.infos[walk.archive[k].name].compress_size = Small(2)

\* C18: every entry of a built index has method 8; when a record of the
\* central directory has another method the walk ends at that record with
\* an AssertionError and the index is never built.
C18_OnlyDeflateIndexed ==
    /\ walk.pc = "built" =>
        /\ \A n \in DOMAIN walk.infos : walk.infos[n].method = 8
        /\ AllDeflate(walk.archive)
    /\ \A k \in 1..Len(walk.archive) :
        walk.archive[k].method # 8 =>
            /\ walk.turns <= k
            /\ walk.turns = k =>
                walk.pc = "raised" /\ walk.exc = "AssertionError"
    /\ (walk.pc = "raised" /\ EocdInWindow) => ~AllDeflate(walk.archive)

C18_Witness ==
    /\ walk.pc = "raised"
    /\ walk.exc = "AssertionError"
    /\ walk.turns = 2
    /\ Len(walk.archive) = 3
    /\ walk.archive[2].method = 0

(***************************************************************************)
(* Claims about the destination paths.                                     *)
(***************************************************************************)

\* C19: RemoteZip.download_single_file writes the member, and nothing else,
\* straight into the directory it is given, under the last component of
\* the member name; Feature.download_single_file writes it, and nothing
\* else, at download_dir joined with the whole member name, every
\* directory on the way being made; it fails only for a name without a
\* last component.
C19_DestinationsOfTheTwoEntryPoints ==
    /\ (dest.pc = "done" /\ dest.entry = "RemoteZip") =>
        /\ Components(dest.filename) # <<>>
        /\ dest.tree.files =
            {[abs |-> Resolve(dest.dir).abs,
              comps |-> Append(Resolve(dest.dir).comps,
                               Components(dest.filename)[
                                   Len(Components(dest.filename))])]}
    /\ (dest.pc = "done" /\ dest.entry = "Feature") =>
        /\ dest.tree.files = {Resolve(Join(dest.dir, dest.filename))}
        /\ Ancestors(Resolve(Join(dest.dir, dest.filename)))
            \subseteq dest.tree.dirs
    /\ (dest.pc = "raised" /\ dest.entry = "Feature") =>
        dest.filename[Len(dest.filename)] = "/"

C19_Witness ==
    /\ dest.pc = "done"
    /\ dest.entry = "Feature"
    /\ dest.filename = <<"a", "/", "b">>
    /\ dest.dir = <<"d">>
    /\ dest.tree.files = {[abs |-> FALSE, comps |-> <<<<"d">>, <<"a">>, <<"b">>>>]}
    /\ dest.tree.files #
        {Resolve(Join(dest.dir, Basename(dest.filename)))}

(***************************************************************************)
(* Claims about the download of the whole archive.                         *)
(***************************************************************************)

\* compute_md5(file) equals the checksum of the catalog: the hex digest of
\* a file is never the empty string.
Md5Matches(file, checksum) == checksum = "given" /\ file = "good"

\* download_archive hands a normal return to its caller.
DaReturns ==
    /\ Len(stack) = 1
    /\ Top.fn = "download_archive"
    /\ stack' = <<>>
    /\ sig'.kind = "return"

\* C20 (as stated): whenever download_archive returns normally the archive
\* file has the MD5 given by the catalog, for every checksum value.
C20_ReturnedArchiveHasMd5 ==
    [][DaReturns => Md5Matches(fs'.archive, Top.checksum)]_vars

\* C20: whenever download_archive returns normally with a non-empty
\* checksum the archive file has that MD5; with an empty checksum it
\* returns after a download that completed, the file not compared; a
\* download whose MD5 differs from a non-empty checksum raises
\* ArchiveDownloadException, and the wrapper of _download_file raises it
\* to the caller only after MAX_NB_RETRIES attempts.
C20_ReturnedArchiveVerifiedIfChecksum ==
    [][/\ (DaReturns /\ Top.checksum = "given") =>
            Md5Matches(fs'.archive, Top.checksum)
       /\ (DaReturns /\ Top.checksum = "empty") =>
            fs'.archive \in {"good", "bad"}
       /\ (Running("_download_file", "verify") /\ Top.checksum = "given"
             /\ fs.archive # "good") =>
            /\ sig'.kind = "raise"
            /\ sig'.exc.kind = "ArchiveDownloadException"
       /\ (Running("_download_file", "verify") /\ Top.checksum = "empty") =>
            sig' = Returned("None")
       /\ (last' # NoLast /\ last'.op = "_download_file"
             /\ last'.kind = "raise"
             /\ last'.exc.kind = "ArchiveDownloadException") =>
            last'.attempts = MAX_NB_RETRIES]_vars

C20_Witness ==
    /\ Running("download_archive", "download")
    /\ sig.kind = "return"
    /\ last # NoLast
    /\ last.op = "_download_file"
    /\ last.attempts = 2
    /\ Top.checksum = "given"
    /\ Top.started.archive = "absent"
    /\ fs.archive = "good"

(***************************************************************************)
(* Claims about transport failures and sleeps.                             *)
(***************************************************************************)

\* An exception has reached a retry wrapper.
AtWrapper ==
    /\ Running("wrapper", "wait")
    /\ sig.kind = "raise"
NotFinalAttempt == Top.retry_nb < Times(Top.op) - 1
\* requests.exceptions.RequestException raised by the HTTP layer.
Transport == {"RequestException"}

\* C21 (as stated): a transport failure that reaches a retry wrapper before
\* its last attempt is followed by the sleep and another attempt.
C21_TransportFailureRetried ==
    [][(AtWrapper /\ sig.exc.kind \in Transport /\ NotFinalAttempt)
        => stack' = Goto("sleep")]_vars

\* C21: a transport failure that reaches a retry wrapper leaves it at once
\* with the same exception, whatever the attempt; the one transport
\* failure that is retried is the one raised while the body of the whole
\* archive is streamed, which _download_file turns into
\* ArchiveDownloadException: before the last attempt the wrapper sleeps and
\* calls _download_file again with renew_token=True.
C21_OnlyArchiveStreamFailureRetried ==
    [][/\ (AtWrapper /\ sig.exc.kind \in Transport) =>
            /\ stack' = Unwind(Below)
            /\ sig' = sig
            /\ last' = Summary(Top, sig)
       /\ (Running("_download_file", "get") /\ sig'.kind = "raise"
             /\ sig'.exc.kind \notin Transport \cup
                    {"HTTPError", "AttributeError", "InvalidToken",
                     "ConnectionError"}) =>
            /\ sig'.exc.kind = "ArchiveDownloadException"
            /\ fs'.archive = "bad"
            /\ Len(stack') = Len(stack) - 1
            /\ stack'[Len(stack')].fn = "wrapper"
       /\ (AtWrapper /\ Top.op = "_download_file" /\ NotFinalAttempt
             /\ sig.exc.kind = "ArchiveDownloadException") =>
            stack' = Goto("sleep")
       /\ (Running("wrapper", "try") /\ Top.retry_nb > 0) =>
            /\ Len(stack') = Len(stack) + 1
            /\ stack'[Len(stack')].renew_token]_vars

C21_Witness ==
    /\ last # NoLast
    /\ last.op = "_download_file"
    /\ last.kind = "raise"
    /\ last.exc.kind \in Transport
    /\ last.attempts = 2
    /\ fs.archive = "bad"

\* C22: in a get call and in a call through the retry wrapper a sleep
\* follows every attempt but the last one, and the last attempt (the one
\* that returns, or the final one that failed) is followed by none: k
\* attempts make k - 1 sleeps.  Stated here for the get call.
C22_SleepsBetweenAttemptsOnly ==
    GetEnded =>
        \A i \in 1..Len(GetLog) : GetLog[i].slept <=> i < Len(GetLog)

\* The same for every get call that does not fall out of its loop, with the
\* sleeps of a call through the retry wrapper.
C22_SleepsUnlessLoopFallsThrough ==
    /\ (GetEnded /\ lastGet.kind # "None") =>
        \A i \in 1..Len(GetLog) : GetLog[i].slept <=> i < Len(GetLog)
    /\ (GetEnded /\ lastGet.kind = "None") =>
        /\ Len(GetLog) = MAX_NB_RETRIES
        /\ \A i \in 1..Len(GetLog) : GetLog[i].slept
    /\ (rw.pc \in {"returned", "raised"} /\ rw.outcomes # <<>>) =>
        rw.sleeps = Len(rw.outcomes) - 1

(***************************************************************************)
(* Claims about the batch entry points.                                    *)
(***************************************************************************)
RECURSIVE Filenames(_)
Filenames(events) ==
    IF events = <<>> THEN <<>>
    ELSE <<Head(events).filename>> \o Filenames(Tail(events))
Rounds ==
    Filenames(SelectSeq(batch.log, LAMBDA e : e.ev = "call"))
Matching ==
    SelectSeq(batch.files, LAMBDA f : AnyMatch(f, batch.matching))
OneRoundAtATime ==
    \A k \in 1..Len(batch.log) :
        batch.log[k].ev # "call" =>
            /\ k > 1
            /\ batch.log[k - 1].filename = batch.log[k].filename
            /\ batch.log[k - 1].ev =
                 CASE batch.log[k].ev = "header" -> "call"
                   [] batch.log[k].ev = "payload" -> "header"
                   [] batch.log[k].ev = "verify" -> "payload"

\* C23: in both batch entry points each member whose name contains at least
\* one pattern gets exactly one round, members matching no pattern get none,
\* the rounds are in index order and one ends before the next starts.
C23_EachMatchingMemberOnce ==
    /\ OneRoundAtATime
    /\ batch.pc = "done" => Rounds = Matching

\* What the two entry points do: download_files makes one round for each
\* matching member, the command line one round for each pair of a member
\* and a pattern it contains, the rounds of a member next to each other
\* and all but the first of them ending after the header.
C23_RoundsOfEachEntryPoint ==
    /\ OneRoundAtATime
    /\ (batch.pc = "done" /\ batch.entry = "download_files")
        => Rounds = Matching
    /\ (batch.pc = "done" /\ batch.entry = "cli")
        => /\ Rounds = to_download(batch.files, batch.matching)
           /\ \A f \in IndexNames :
                Len(SelectSeq(batch.log,
                      LAMBDA e : e.filename = f /\ e.ev = "payload")) <= 1

(***************************************************************************)
(* Claims about short deliveries.                                          *)
(***************************************************************************)
Extracting(pc) == Running("RemoteZip.download_single_file", pc)
Retried == ErrCls("download_single_file")

\* C24: after a delivery of fewer bytes than the local file header or the
\* payload asked for, the attempt does not return: it raises an exception
\* of a class the wrapper of Feature.download_single_file retries.
C24_ShortDeliveryNeverReturns ==
    [][/\ Extracting("check") => Top.got = "full"
       /\ (Extracting("verify") /\ Top.got = "short")
            => sig'.kind = "raise" /\ sig'.exc.kind \in Retried]_vars

\* A short local file header never unpacks; after a short payload the
\* attempt raises RemoteZipDownloadException, or it returns and the file
\* written holds the whole member; struct.error and
\* RemoteZipDownloadException are retried before the last attempt.
C24_ShortDeliveryRaisesUnlessFileValid ==
    [][/\ Extracting("check") => Top.got = "full"
       /\ (Extracting("verify") /\ Top.got = "short")
            => \/ /\ sig'.kind = "raise"
                  /\ sig'.exc.kind = "RemoteZipDownloadException"
                  /\ fs.member # "good"
               \/ /\ sig'.kind = "return"
                  /\ fs.member = "good"
       /\ (/\ AtWrapper
           /\ Top.op = "download_single_file"
           /\ sig.exc.kind \in {"struct.error", "RemoteZipDownloadException"}
           /\ NotFinalAttempt)
            => stack' = Goto("sleep")]_vars

\* A second attempt whose payload came short again.
C24_Witness ==
    /\ Extracting("verify")
    /\ Top.got = "short"
    /\ \E i \in 1..Len(stack) :
        /\ stack[i].fn = "wrapper"
        /\ stack[i].op = "download_single_file"
        /\ stack[i].retry_nb >= 1

(***************************************************************************)
(* Claims about renewals by several threads.                               *)
(***************************************************************************)
AllEnded ==
    \A t \in Threads : renewers.threads[t].pc \in {"done", "raised"}

\* C25: the session does not serialize renewals: two threads renewing at
\* the same time can make two authentication calls and leave the session
\* with the token issued first (the state of C25_Witness); when the callers
\* serialize the renewals, the session holds the token issued last whenever
\* no renewal is under way.
C25_SerializedRenewalsKeepLatestToken ==
    (/\ renewers # RenewersIdle
     /\ renewers.serialized
     /\ \A t \in Threads : ~Inside(t))
        => authorization_headers = server.issued

\* Two renewals that were not serialized have succeeded, and the session
\* holds the token of the first authentication call, not the one issued last.
C25_Witness ==
    /\ renewers # RenewersIdle
    /\ ~renewers.serialized
    /\ renewers.posts = 2
    /\ \A t \in Threads : renewers.threads[t].pc = "done"
    /\ Len(renewers.threads) = 2
    /\ authorization_headers # server.issued
    /\ \E t \in Threads : authorization_headers = renewers.threads[t].r.token

(***************************************************************************)
(* Claims about the stored authorization header.                           *)
(***************************************************************************)
AuthFailures == {"ConnectionError", "InvalidToken"}

\* The headers after the renewals logged by a get call begun with token h.
RECURSIVE Installed(_, _)
Installed(h, log) ==
    IF log = <<>> THEN h
    ELSE Installed(IF Head(log).auth # NoAuth /\ Head(log).auth.exc = "none"
                   THEN Head(log).renewed ELSE h,
                   Tail(log))

\* C26: once a session is constructed its header carries the token of the
\* latest successful authentication; a renewal that fails with
\* ConnectionError or InvalidToken, called directly or inside get, leaves
\* the header as it was; only a successful renewal changes the header.
C26_HeaderIsLatestToken ==
    /\ [](session = "live" =>
            /\ authorization_headers # 0
            /\ authorization_headers = server.issued)
    /\ [](GetEnded =>
            authorization_headers = Installed(lastGet.hdr, GetLog))
    /\ [][/\ (/\ lastAuth' # lastAuth
              /\ lastAuth'.by = "renew"
              /\ lastAuth'.exc \in AuthFailures)
               => authorization_headers' = authorization_headers
          /\ authorization_headers' # authorization_headers
               => /\ server'.issued # server.issued
                  /\ authorization_headers' = server'.issued]_vars

\* A get call in which a renewal succeeded and the next one failed: the
\* header is the token of the first.
C26_Witness ==
    /\ GetEnded
    /\ lastGet.kind = "raise"
    /\ lastGet.exc \in AuthFailures
    /\ Len(GetLog) = 2
    /\ GetLog[1].auth.exc = "none"
    /\ authorization_headers = GetLog[1].renewed
    /\ authorization_headers # lastGet.hdr

(***************************************************************************)
(* Claims about the ranges requested.                                      *)
(***************************************************************************)
Extracted ==
    CHOOSE m \in {walk.archive[k] : k \in 1..Len(walk.archive)} :
        m.name = walk.filename

\* C27: for every member of the index, Zip64 members included, the payload
\* is requested from header offset + 30 + name length + extra length, for
\* exactly the compressed size the index holds for the member.
C27_PayloadRangeIsOfTheIndex ==
    walk.pc = "payload" =>
        /\ walk.start = Plus(Extracted.header_offset,
                             30 + Len(Extracted.name)
                                + Len(LocalExtra(Extracted)))
        /\ walk.length = walk.infos[walk.filename].compress_size

\* What is requested: the start is as C27 says; the length is the 32-bit
\* compressed size of the local file header, which is the size of the
\* index for the members without Zip64 sizes and 0xFFFFFFFF for the others.
C27_PayloadLengthIsOfTheLocalHeader ==
    walk.pc = "payload" =>
        /\ walk.start = Plus(Extracted.header_offset,
                             30 + Len(Extracted.name)
                                + Len(LocalExtra(Extracted)))
        /\ walk.length = IF LocalZip64(Extracted) THEN zip64_ones
                         ELSE walk.infos[walk.filename].compress_size

Asked == walk.pc \in {"search", "found"} \/ walk.exc # "none"
Trailing == RangeBody(walk.size, Max(walk.size - eocd_buf_bytes, 0))

\* C28: the start of every ranged fetch is not negative and lies inside the
\* archive; the fetch of the lookup window, also when the content length is
\* missing or smaller than the window, asks for a range that covers the
\* trailing bytes of the archive.
C28_WindowRangeInsideArchive ==
    Asked =>
        /\ walk.start >= 0
        /\ walk.start < walk.size
        /\ walk.pc = "search" => walk.buf = Trailing

\* What is asked: the start is tot_bytes - eocd_buf_bytes, which is inside
\* the archive exactly when the content length is announced and not smaller
\* than the window; the window fetched is then the trailing one.
C28_WindowStartIsLengthMinusWindow ==
    Asked =>
        /\ walk.start = (IF walk.announced THEN walk.size ELSE 0)
                            - eocd_buf_bytes
        /\ walk.start >= 0 <=>
                (walk.announced /\ walk.size >= eocd_buf_bytes)
        /\ (walk.start >= 0 /\ walk.pc = "search") => walk.buf = Trailing

====
